---- MODULE Spec2Model ----
(***************************************************************************)
(* Model of the turn orchestrator of main.py (process_message) and of the  *)
(* search gateway function it calls (search_handler.serper_first_link).    *)
(*                                                                         *)
(* Spec          one turn of process_message, from any of a few stores     *)
(*               left by earlier turns; every sink call, the model call,   *)
(*               the file write and every search call may fail.            *)
(* SpecExtract   _extract_json_array on every text of up to MaxLen tokens. *)
(* SpecNormalize the normalisation loop on every parsed value of up to     *)
(*               MaxItems elements.                                        *)
(*                                                                         *)
(* A message text and an ingredient name are sequences of characters.  The *)
(* text returned by the language model is a sequence of lexical tokens:    *)
(* the structural characters of JSON, string literals, key-with-colon      *)
(* tokens, a number, null, a prose word ("x") and a newline ("nl").  A     *)
(* text sent to the sink is a sequence of lines.                           *)
(***************************************************************************)
EXTENDS Integers, Sequences, FiniteSets, TLC

VARIABLES
    pc,            \* position of the turn inside process_message
    data,          \* the IncomingMessage of the turn (ChatMessage)
    store,         \* conversation_manager: thread id -> sequence of turns
    events,        \* calls issued on the sink (lexia.*), in order
    llmCalls,      \* number of client.chat.completions.create calls issued
    searches,      \* serper_first_link calls issued, in order, with their outcome
    raw_content,   \* main.py:172
    ingredients,   \* outcome of _extract_json_array (main.py:187)
    normalized,    \* main.py:191
    file,          \* content of /tmp/ingredients.txt
    idx,           \* position of the lookup loop (main.py:221)
    link,          \* main.py:225 / 228
    results_lines, \* main.py:220
    exc,           \* detail text of the exception being handled, "" if none
    sinkFailed,    \* some sink call of the turn raised
    providerFailed \* some language-model or search call of the turn raised

\* the event loop of the host (uvicorn.run, main.py:286)
VARIABLES
    tasks,         \* request -> position of its process_message coroutine
    loop           \* the request whose coroutine the loop is running, or None

lvars == <<tasks, loop>>

\* the conversation store under a sequence of appends
VARIABLES
    appended       \* thread id -> every turn appended to it, in order

hvars == <<appended>>

\* the conversation store as the turn found it
VARIABLES
    prior_store    \* value of store before process_message was entered

pvars == <<prior_store>>

\* the function-call dispatcher (search_handler.process_function_calls)
VARIABLES
    function_calls,   \* the calls handed to process_function_calls
    call_idx,         \* position of its loop (search_handler.py:387)
    combined_result,  \* search_handler.py:385
    call_log,         \* for each call executed: did execute_function_call
                      \* raise, and the text added to combined_result
    call_result,      \* result text of the call being executed
    menu_items,       \* items, search_handler.py:266
    item_idx,         \* search_handler.py:278
    attempt,          \* n of search_handler.py:283
    found_any,        \* search_handler.py:282
    combined,         \* search_handler.py:277
    results_per_item, \* search_handler.py:265
    menu_file,        \* content of /tmp/menu.txt
    effects,          \* searches, parses and file writes done, in order
    event_call        \* for each sink call, the function call that issued it

dvars == <<function_calls, call_idx, combined_result, call_log, call_result,
           menu_items, item_idx, attempt, found_any, combined,
           results_per_item, menu_file, effects, event_call>>

xvars == <<lvars, hvars, dvars, pvars>>

vars == <<pc, data, store, events, llmCalls, searches, raw_content,
          ingredients, normalized, file, idx, link, results_lines, exc,
          sinkFailed, providerFailed, xvars>>

---------------------------------------------------------------------------
(* Bounds of the model. *)

\* longest model output, in tokens, of the extraction specification
MaxLen == 6
\* longest parsed array of the normalisation specification
MaxItems == 3
\* longest array of distinct ingredients the language model returns in a turn
MaxList == 3
\* most appends of a run of the store specification
MaxAppends == 12
\* most function calls of a list handed to process_function_calls
MaxCalls == 2

---------------------------------------------------------------------------
(* Python values as produced by json.loads. *)

V_str(cs)  == [t |-> "str",  v |-> cs]
V_list(xs) == [t |-> "list", v |-> xs]
V_dict(ms) == [t |-> "dict", v |-> ms]
V_num      == [t |-> "num",  v |-> <<>>]
V_int(n)   == [t |-> "num",  v |-> <<n>>]
V_null     == [t |-> "null", v |-> <<>>]

\* string literal tokens and the string each one denotes
StrLit ==
    ("'a'" :> <<"a">>) @@ ("'A'" :> <<"A">>) @@ ("' a '" :> <<" ", "a", " ">>) @@
    ("'b'" :> <<"b">>) @@ ("'c'" :> <<"c">>) @@ ("'d'" :> <<"d">>) @@
    ("''" :> <<>>) @@ ("' '" :> <<" ">>) @@
    ("'- ab\ncd $5'" :> <<"-", " ", "a", "b", "\n", "c", "d", " ", "$", "5">>) @@
    ("'Ab\n\nAb\na'" :> <<"A", "b", "\n", "\n", "A", "b", "\n", "a">>) @@
    ("'menu\n$5'" :> <<"m", "e", "n", "u", "\n", "$", "5">>)

\* key tokens (a string literal followed by a colon) and the key each denotes
KeyLit ==
    ("k:" :> "k") @@ ("name:" :> "name") @@ ("query:" :> "query") @@
    ("menu_text:" :> "menu_text") @@ ("results_per_item:" :> "results_per_item")

\* number tokens other than "1" and the number each one denotes
NumLit == ("0" :> 0) @@ ("2" :> 2) @@ ("5" :> 5)

\* whitespace between JSON tokens
IsJsonSpace(tok) == tok = "nl"

ParseFail == [ok |-> FALSE, val |-> V_null, next |-> 0]
ParseOk(val, next) == [ok |-> TRUE, val |-> val, next |-> next]

RECURSIVE ParseValue(_, _), ParseElems(_, _, _), ParseMembers(_, _, _)

\* one JSON value starting at token i
ParseValue(t, i) ==
    IF i > Len(t) THEN ParseFail
    ELSE IF t[i] \in DOMAIN StrLit THEN ParseOk(V_str(StrLit[t[i]]), i + 1)
    ELSE IF t[i] = "1" THEN ParseOk(V_num, i + 1)
    ELSE IF t[i] \in DOMAIN NumLit THEN ParseOk(V_int(NumLit[t[i]]), i + 1)
    ELSE IF t[i] = "null" THEN ParseOk(V_null, i + 1)
    ELSE IF t[i] = "[" THEN
        IF i + 1 <= Len(t) /\ t[i + 1] = "]"
        THEN ParseOk(V_list(<<>>), i + 2)
        ELSE ParseElems(t, i + 1, <<>>)
    ELSE IF t[i] = "{" THEN
        IF i + 1 <= Len(t) /\ t[i + 1] = "}"
        THEN ParseOk(V_dict(<<>>), i + 2)
        ELSE ParseMembers(t, i + 1, <<>>)
    ELSE ParseFail

\* the elements of an array, after its "[" or a ","
ParseElems(t, i, acc) ==
    LET e == ParseValue(t, i) IN
    IF ~e.ok \/ e.next > Len(t) THEN ParseFail
    ELSE IF t[e.next] = "," THEN ParseElems(t, e.next + 1, Append(acc, e.val))
    ELSE IF t[e.next] = "]" THEN ParseOk(V_list(Append(acc, e.val)), e.next + 1)
    ELSE ParseFail

\* the members of an object, after its "{" or a ","
ParseMembers(t, i, acc) ==
    IF i > Len(t) \/ t[i] \notin DOMAIN KeyLit THEN ParseFail
    ELSE
        LET e == ParseValue(t, i + 1)
            m == [key |-> KeyLit[t[i]], val |-> e.val]
        IN
        IF ~e.ok \/ e.next > Len(t) THEN ParseFail
        ELSE IF t[e.next] = "," THEN ParseMembers(t, e.next + 1, Append(acc, m))
        ELSE IF t[e.next] = "}" THEN ParseOk(V_dict(Append(acc, m)), e.next + 1)
        ELSE ParseFail

\* json.loads(text): ok is FALSE where json.loads raises
json_loads(text) ==
    LET t == SelectSeq(text, LAMBDA tok : ~IsJsonSpace(tok))
        r == ParseValue(t, 1)
    IN
    IF r.ok /\ r.next = Len(t) + 1
    THEN [ok |-> TRUE, val |-> r.val]
    ELSE [ok |-> FALSE, val |-> V_null]

\* re.search(r"\[.*\]", text, re.DOTALL): leftmost "[", then greedy to the
\* last "]" of the text; <<>> stands for no match
re_search(text) ==
    LET opens  == {i \in DOMAIN text : text[i] = "["}
        closes == {j \in DOMAIN text : text[j] = "]"}
    IN
    IF opens = {} \/ closes = {} THEN <<>>
    ELSE
        LET first == CHOOSE i \in opens : \A k \in opens : i <= k
            last  == CHOOSE j \in closes : \A k \in closes : k <= j
        IN
        IF first < last THEN SubSeq(text, first, last) ELSE <<>>

Returned(val) == [raised |-> FALSE, val |-> val]
Raised == [raised |-> TRUE, val |-> V_null]

\* mutant of extract_json_array: the second json.loads is not guarded
extract_json_array_unguarded(text) ==
    LET whole == json_loads(text) IN
    IF whole.ok THEN Returned(whole.val)
    ELSE
        LET match == re_search(text) IN
        IF match # <<>>
        THEN LET inner == json_loads(match) IN
             IF inner.ok THEN Returned(inner.val) ELSE Raised
        ELSE Returned(V_list(<<>>))

\* _extract_json_array(text)
extract_json_array(text) ==
    LET whole == json_loads(text) IN
    IF whole.ok THEN Returned(whole.val)
    ELSE
        LET match == re_search(text) IN
        IF match # <<>>
        THEN LET inner == json_loads(match) IN
             IF inner.ok THEN Returned(inner.val) ELSE Returned(V_list(<<>>))
        ELSE Returned(V_list(<<>>))

---------------------------------------------------------------------------
(* str.strip, str.lower and str() on the characters of the model. *)

IsSpace(c) == c \in {" ", "\n"}

LowerChar ==
    ("A" :> "a") @@ ("B" :> "b") @@ ("H" :> "h") @@ ("L" :> "l") @@
    ("O" :> "o") @@ ("N" :> "n") @@ ("U" :> "u") @@ ("E" :> "e") @@ ("S" :> "s")

lower(s) ==
    [i \in 1..Len(s) |-> IF s[i] \in DOMAIN LowerChar THEN LowerChar[s[i]] ELSE s[i]]

strip(s) ==
    LET keep == {i \in DOMAIN s : ~IsSpace(s[i])} IN
    IF keep = {} THEN <<>>
    ELSE SubSeq(s, CHOOSE i \in keep : \A k \in keep : i <= k,
                   CHOOSE j \in keep : \A k \in keep : k <= j)

\* str(value) for the value of a "name" member
py_str(val) ==
    IF val.t = "str" THEN val.v
    ELSE IF val.t = "num" THEN (IF val.v = <<>> THEN <<"1">> ELSE <<ToString(val.v[1])>>)
    ELSE IF val.t = "null" THEN <<"N", "o", "n", "e">>
    ELSE IF val.t = "list" THEN <<"[", "]">>
    ELSE <<"{", "}">>

\* "name" in item
HasName(item) == \E i \in DOMAIN item.v : item.v[i].key = "name"

\* item["name"]: the last member of that key
NameOf(item) ==
    LET at == {i \in DOMAIN item.v : item.v[i].key = "name"} IN
    item.v[CHOOSE i \in at : \A k \in at : k <= i].val

\* the name taken from one element, main.py:193-198
Accepted(item) == item.t = "str" \/ (item.t = "dict" /\ HasName(item))

ItemName(item) ==
    IF item.t = "str" THEN strip(item.v) ELSE strip(py_str(NameOf(item)))

RECURSIVE NormalizeLoop_CaseSensitive(_, _, _, _)

\* mutant of NormalizeLoop: seen holds the names as spelled
NormalizeLoop_CaseSensitive(items, i, seen, acc) ==
    IF i > Len(items) THEN acc
    ELSE IF ~Accepted(items[i]) THEN NormalizeLoop_CaseSensitive(items, i + 1, seen, acc)
    ELSE
        LET name == ItemName(items[i]) IN
        IF name # <<>> /\ name \notin seen
        THEN NormalizeLoop_CaseSensitive(items, i + 1, seen \cup {name}, Append(acc, name))
        ELSE NormalizeLoop_CaseSensitive(items, i + 1, seen, acc)

RECURSIVE NormalizeLoop(_, _, _, _)

\* the loop of main.py:192-201
NormalizeLoop(items, i, seen, acc) ==
    IF i > Len(items) THEN acc
    ELSE IF ~Accepted(items[i]) THEN NormalizeLoop(items, i + 1, seen, acc)
    ELSE
        LET name == ItemName(items[i]) IN
        IF name # <<>> /\ lower(name) \notin seen
        THEN NormalizeLoop(items, i + 1, seen \cup {lower(name)}, Append(acc, name))
        ELSE NormalizeLoop(items, i + 1, seen, acc)

\* main.py:188-201
normalize(value) ==
    NormalizeLoop(IF value.t = "list" THEN value.v ELSE <<>>, 1, {}, <<>>)

---------------------------------------------------------------------------
(* _parse_menu_items, search_handler.py:149-204, on texts of characters.    *)

\* F(v), with v evaluated once
Bind(v, F(_)) == CHOOSE r \in {F(x) : x \in {v}} : TRUE

\* str.splitlines on a text whose line boundaries are "\n"
RECURSIVE splitlines(_)

splitlines(s) ==
    IF s = <<>> THEN <<>>
    ELSE
        LET ends == {i \in DOMAIN s : s[i] = "\n"} IN
        IF ends = {} THEN <<s>>
        ELSE
            LET i == CHOOSE e \in ends : \A k \in ends : e <= k IN
            <<SubSeq(s, 1, i - 1)>> \o splitlines(SubSeq(s, i + 1, Len(s)))

startswith(s, prefix) ==
    Len(prefix) <= Len(s) /\ SubSeq(s, 1, Len(prefix)) = prefix

\* search_handler.py:165
bullet_prefixes ==
    << <<"-", " ">>, <<"*", " ">>, <<"bullet", " ">>, <<"middot", " ">>,
       <<"bullet">>, <<"-">> >>

RECURSIVE strip_bullets(_, _)

\* search_handler.py:165-167, from the k-th prefix on
strip_bullets(line, k) ==
    IF k > Len(bullet_prefixes) THEN line
    ELSE
        LET prefix == bullet_prefixes[k] IN
        Bind(IF startswith(line, prefix)
             THEN strip(SubSeq(line, Len(prefix) + 1, Len(line)))
             ELSE line,
             LAMBDA rest : strip_bullets(rest, k + 1))

CurrencySigns == {"$", "euro", "pound", "yen"}
Digits == {"0", "1", "2", "3", "4", "5", "6", "7", "8", "9"}
Whitespace == {" ", "\n", "\t"}

\* length of the longest run of characters of S that starts at position i
RunFrom(s, i, S) ==
    CHOOSE k \in 0..(Len(s) + 1 - i) :
        /\ \A j \in i..(i + k - 1) : s[j] \in S
        /\ i + k > Len(s) \/ s[i + k] \notin S

\* length of the match of \d+\.?\d* at position i, 0 if there is none
NumberAt(s, i) ==
    IF i > Len(s) THEN 0
    ELSE
        Bind(RunFrom(s, i, Digits), LAMBDA d1 :
            LET j == i + d1
                dot == IF j <= Len(s) /\ s[j] = "." THEN 1 ELSE 0
            IN
            IF d1 = 0 THEN 0 ELSE d1 + dot + RunFrom(s, j + dot, Digits))

\* length of the match at position i of the price pattern of
\* search_handler.py:175 (which = 1), 176 (2) or 177 (3), 0 if there is none
price_match(which, s, i) ==
    IF which = 1 THEN
        IF s[i] \notin CurrencySigns THEN 0
        ELSE
            Bind(RunFrom(s, i + 1, Whitespace), LAMBDA sp :
            Bind(NumberAt(s, i + 1 + sp), LAMBDA n :
                IF n = 0 THEN 0 ELSE 1 + sp + n))
    ELSE IF which = 2 THEN
        Bind(NumberAt(s, i), LAMBDA n :
        Bind(RunFrom(s, i + n, Whitespace), LAMBDA sp :
            LET k == i + n + sp IN
            IF n > 0 /\ k <= Len(s) /\ s[k] \in CurrencySigns
            THEN n + sp + 1
            ELSE 0))
    ELSE IF s[i] # "$" THEN 0
    ELSE Bind(NumberAt(s, i + 1), LAMBDA n : IF n > 0 THEN 1 + n ELSE 0)

RECURSIVE remove_prices(_, _, _)

\* re.sub(pattern, '', line), from position i on
remove_prices(which, s, i) ==
    IF i > Len(s) THEN <<>>
    ELSE
        Bind(price_match(which, s, i), LAMBDA m :
            IF m > 0 THEN remove_prices(which, s, i + m)
            ELSE <<s[i]>> \o remove_prices(which, s, i + 1))

\* word in text
contains(text, word) ==
    \E i \in 1..(Len(text) - Len(word) + 1) :
        SubSeq(text, i, i + Len(word) - 1) = word

\* search_handler.py:180-181
section_headers ==
    { <<"a", "p", "p", "e", "t", "i", "z", "e", "r", "s">>,
      <<"e", "n", "t", "r", "e", "e", "s">>,
      <<"m", "a", "i", "n", "s">>,
      <<"d", "e", "s", "s", "e", "r", "t", "s">>,
      <<"d", "r", "i", "n", "k", "s">>,
      <<"b", "e", "v", "e", "r", "a", "g", "e", "s">>,
      <<"s", "t", "a", "r", "t", "e", "r", "s">>,
      <<"s", "a", "l", "a", "d", "s">>,
      <<"s", "o", "u", "p", "s">>,
      <<"s", "i", "d", "e", "s">>,
      <<"s", "p", "e", "c", "i", "a", "l", "s">>,
      <<"m", "e", "n", "u">>,
      <<"p", "r", "i", "c", "e">> }

\* search_handler.py:186
description_words ==
    { <<"d", "e", "s", "c", "r", "i", "p", "t", "i", "o", "n">>,
      <<"i", "n", "g", "r", "e", "d", "i", "e", "n", "t", "s">>,
      <<"s", "e", "r", "v", "e", "d", " ", "w", "i", "t", "h">>,
      <<"c", "o", "m", "e", "s", " ", "w", "i", "t", "h">>,
      <<"i", "n", "c", "l", "u", "d", "e", "s">> }

Letters ==
    { "a", "b", "c", "d", "e", "f", "g", "h", "i", "j", "k", "l", "m",
      "n", "o", "p", "q", "r", "s", "t", "u", "v", "w", "x", "y", "z" } \cup
    { "A", "B", "C", "D", "E", "F", "G", "H", "I", "J", "K", "L", "M",
      "N", "O", "P", "Q", "R", "S", "T", "U", "V", "W", "X", "Y", "Z" }

\* search_handler.py:175-177
without_prices(line) ==
    Bind(remove_prices(1, line, 1), LAMBDA first :
    Bind(remove_prices(2, first, 1), LAMBDA second : remove_prices(3, second, 1)))

\* search_handler.py:179-197 on a line without its prices: the cleaned line,
\* or <<>> where the loop goes on to the next line
keep_line(line, lowered) ==
    LET kept == {i \in DOMAIN line : line[i] \in Letters \cup Whitespace} IN
    IF \E header \in section_headers : contains(lowered, header) THEN <<>>
    ELSE IF \E word \in description_words : contains(lowered, word) THEN <<>>
    ELSE IF 2 * Cardinality(kept) < Len(line) THEN <<>>
    ELSE IF Len(strip(line)) < 2 THEN <<>>
    ELSE strip(line)

\* the body of the loop of search_handler.py:163-197 on one raw line
clean_line(raw) ==
    Bind(strip_bullets(strip(raw), 1), LAMBDA line :
        IF Len(line) < 2 THEN <<>>
        ELSE Bind(without_prices(line), LAMBDA priced :
             Bind(lower(priced), LAMBDA lowered : keep_line(priced, lowered))))

RECURSIVE parse_lines(_, _, _)

\* search_handler.py:160-204, from the i-th line on
parse_lines(lines, i, acc) ==
    IF i > Len(lines) THEN acc
    ELSE
        Bind(clean_line(lines[i]), LAMBDA line :
            IF line = <<>> \/ \E k \in DOMAIN acc : acc[k] = line
            THEN parse_lines(lines, i + 1, acc)
            ELSE Bind(Append(acc, line), LAMBDA seen : parse_lines(lines, i + 1, seen)))

\* _parse_menu_items(menu_text)
parse_menu_items(menu_text) ==
    IF menu_text = <<>> THEN <<>>
    ELSE Bind(splitlines(menu_text), LAMBDA lines : parse_lines(lines, 1, <<>>))

---------------------------------------------------------------------------
(* Texts sent to the sink.  A text is a sequence of lines; a line records   *)
(* which fixed wording it is and the values interpolated into it.           *)

Line(k, ing, lnk, n) == [k |-> k, ing |-> ing, link |-> lnk, n |-> n]

\* main.py:131
missing_key_msg == <<Line("missing_key", <<>>, "", 0)>>
\* main.py:143
ack_msg == <<Line("ack", <<>>, "", 0)>>
\* main.py:149
greet_reply == <<Line("greeting", <<>>, "", 0)>>
\* main.py:204
no_items_msg == <<Line("no_items", <<>>, "", 0)>>
\* main.py:214 and 237
items_header == <<Line("items_header", <<>>, "", 0)>>
\* main.py:216 and 238: "- {ing}"
item_line(ing) == <<Line("item", ing, "", 0)>>
\* main.py:217
count_msg(n) == <<Line("count", <<>>, "", n)>>
\* main.py:224
progress_msg(ing) == <<Line("progress", ing, "", 0)>>
\* main.py:230 and 233
result_msg(ing, lnk) ==
    IF lnk # "" THEN <<Line("result_chunk", ing, lnk, 0)>>
    ELSE <<Line("not_found_chunk", ing, "", 0)>>
\* main.py:220
results_header == <<Line("results_header", <<>>, "", 0)>>
\* main.py:231 and 234
result_line(ing, lnk) ==
    IF lnk # "" THEN <<Line("result", ing, lnk, 0)>>
    ELSE <<Line("not_found", ing, "", 0)>>
\* main.py:239
blank_line == <<Line("blank", <<>>, "", 0)>>
\* main.py:249
error_msg(detail) == <<Line("error", <<>>, detail, 0)>>

RECURSIVE join_lines(_)

\* "\n".join(parts)
join_lines(parts) ==
    IF parts = <<>> THEN <<>> ELSE Head(parts) \o join_lines(Tail(parts))

\* "- " + "\n- ".join(normalized), main.py:238
items_section(items) ==
    IF items = <<>> THEN item_line(<<>>)
    ELSE join_lines([i \in 1..Len(items) |-> item_line(items[i])])

\* mutant of compose: the results section comes first
compose_results_first(items, lines) ==
    join_lines(<<join_lines(lines), blank_line, items_header, items_section(items)>>)

\* main.py:236-241
compose(items, lines) ==
    join_lines(<<items_header, items_section(items), blank_line, join_lines(lines)>>)

---------------------------------------------------------------------------
(* The incoming message. *)

\* None, for a credential and for a message text
None == "<None>"
NoneMsg == <<None>>

Threads == {"t1", "t2"}

MsgHello == <<"h", "e", "l", "l", "o">>
MsgHolaMixed == <<" ", "H", "o", "L", "a", "\n">>
MsgHolaMore == <<"h", "o", "l", "a", " ", "b">>
MsgBuenas == <<"B", "U", "E", "N", "A", "S">>
MsgDish == <<"p", "a", "n">>
Messages == {NoneMsg, <<>>, MsgHello, MsgHolaMixed, MsgBuenas, MsgHolaMore, MsgDish}

KeyValues == {None, "", "key"}

Inputs ==
    [thread_id : Threads, message : Messages,
     variables : [OPENAI_API_KEY : KeyValues, SERPER_API_KEY : KeyValues]]

NoData ==
    [thread_id |-> "t1", message |-> <<>>,
     variables |-> [OPENAI_API_KEY |-> None, SERPER_API_KEY |-> None]]

\* Variables(variables).get(name)
vars_get(variables, name) ==
    IF name = "OPENAI_API_KEY" THEN variables.OPENAI_API_KEY
    ELSE variables.SERPER_API_KEY

\* truth value of an optional string
Truthy(s) == s # None /\ s # ""

\* main.py:147
greetings ==
    { <<"h", "i">>, <<"h", "e", "l", "l", "o">>, <<"h", "o", "l", "a">>,
      <<"h", "e", "y">>, <<"b", "u", "e", "n", "a", "s">>,
      <<"b", "u", "e", "n", "o", "s", " ", "d", "i_acute", "a", "s">>,
      <<"b", "u", "e", "n", "a", "s", " ", "t", "a", "r", "d", "e", "s">>,
      <<"b", "u", "e", "n", "a", "s", " ", "n", "o", "c", "h", "e", "s">> }

\* mutant of msg_lower: the message is lowercased but not trimmed
msg_lower_untrimmed(message) ==
    lower(IF message = NoneMsg THEN <<>> ELSE message)

\* main.py:146: (data.message or "").strip().lower()
msg_lower(message) ==
    lower(strip(IF message = NoneMsg THEN <<>> ELSE message))

\* mutant of is_greeting: the English phrases are missing from the set
is_greeting_spanish(message) ==
    msg_lower(message) \in {g \in greetings : Head(g) = "b"} \cup {<<"h", "o", "l", "a">>}

\* main.py:148
is_greeting(message) == msg_lower(message) \in greetings

---------------------------------------------------------------------------
(* The conversation store (memory.ConversationManager). *)

\* mutant of max_history: the store is built with a larger bound
max_history_larger == 10 + 1

max_history == 10

Turn(role, content) == [role |-> role, content |-> content]

\* add_message: append, then evict from the front down to max_history
add_message(st, thread, role, content) ==
    LET h == Append(st[thread], Turn(role, content)) IN
    [st EXCEPT ![thread] =
        IF Len(h) > max_history
        THEN SubSeq(h, Len(h) - max_history + 1, Len(h))
        ELSE h]

\* get_history
get_history(st, thread) == st[thread]

EmptyStore == [th \in Threads |-> <<>>]

\* stores left by earlier turns: none; one greeting turn on t1; ten on t1
PriorStores ==
    { EmptyStore,
      [EmptyStore EXCEPT !["t1"] = <<Turn("user", MsgHello)>>],
      [EmptyStore EXCEPT !["t1"] = [i \in 1..max_history |-> Turn("user", MsgHello)]] }

---------------------------------------------------------------------------
(* The external services. *)

\* string literals of distinct ingredients
ItemLits == <<"'a'", "'b'", "'c'", "'d'">>

RECURSIVE CommaSeparated(_)

CommaSeparated(k) ==
    IF k = 1 THEN <<ItemLits[1]>>
    ELSE CommaSeparated(k - 1) \o <<",", ItemLits[k]>>

\* the JSON array of the first k ingredients
ArrayOf(k) == <<"[">> \o CommaSeparated(k) \o <<"]">>

\* what the language model may return as message content
RawContents ==
    {ArrayOf(k) : k \in 1..MaxList} \cup
    { <<"[", "' a '", ",", "'A'", ",", "''", ",", "'b'", "]">>,
      <<"[", "{", "name:", "'a'", "}", ",", "1", ",", "'b'", "]">>,
      <<"x", "nl", "[", "'a'", ",", "nl", "'b'", "]", "x">>,
      <<"{", "k:", "[", "'a'", "]", "}">>,
      <<"x">>,
      <<"[", "]">> }

\* failures of client.chat.completions.create
ModelErrors == {"model: 401", "model: timeout"}

\* what the search provider may answer to one request
Links == {"L1", "L2"}
ProviderAnswers == {"http_error", "no_organic", "no_link"} \cup Links

\* serper_first_link(query, variables), search_handler.py:408-433, on the
\* provider's answer
serper_first_link(variables, answer) ==
    IF ~Truthy(vars_get(variables, "SERPER_API_KEY"))
    THEN [raised |-> TRUE, val |-> None, detail |-> "ValueError: Serper API key not found"]
    ELSE IF answer = "http_error"
    THEN [raised |-> TRUE, val |-> None, detail |-> "HTTPError"]
    ELSE IF answer \in {"no_organic", "no_link"}
    THEN [raised |-> FALSE, val |-> None, detail |-> ""]
    ELSE [raised |-> FALSE, val |-> answer, detail |-> ""]

---------------------------------------------------------------------------
(* The sink (lexia.stream_chunk, complete_response, send_error). *)

Event(op, text, ok) == [op |-> op, text |-> text, ok |-> ok]

Terminals == {"complete_response", "send_error"}

\* pc of the top-level handler, main.py:248
Except == "except"

\* a call of a sink operation at this position: it returns and the turn goes
\* on to next, or it raises and the turn goes to handler
SinkCall(op, text, next, handler) ==
    \E ok \in BOOLEAN :
        /\ events' = Append(events, Event(op, text, ok))
        /\ pc' = IF ok THEN next ELSE handler
        /\ sinkFailed' = (sinkFailed \/ ~ok)
        /\ exc' = IF ok \/ handler # Except THEN exc ELSE "sink error"

---------------------------------------------------------------------------
(* Values of the variables a specification does not use. *)

LoopIdle == tasks = <<>> /\ loop = None

HistoryIdle == appended = <<>>

\* no turn has touched the store yet
StoreAsFound == prior_store = store

DispatchIdle ==
    /\ function_calls = <<>>
    /\ call_idx = 0
    /\ combined_result = <<>>
    /\ call_log = <<>>
    /\ call_result = <<>>
    /\ menu_items = <<>>
    /\ item_idx = 0
    /\ attempt = 0
    /\ found_any = FALSE
    /\ combined = <<>>
    /\ results_per_item = 0
    /\ menu_file = <<>>
    /\ effects = <<>>
    /\ event_call = <<>>

---------------------------------------------------------------------------
(* process_message, main.py:76-251. *)

Init ==
    /\ pc = "idle"
    /\ data = NoData
    /\ store \in PriorStores
    /\ events = <<>>
    /\ llmCalls = 0
    /\ searches = <<>>
    /\ raw_content = <<>>
    /\ ingredients = Returned(V_list(<<>>))
    /\ normalized = <<>>
    /\ file = <<>>
    /\ idx = 0
    /\ link = None
    /\ results_lines = <<>>
    /\ exc = ""
    /\ sinkFailed = FALSE
    /\ providerFailed = FALSE
    /\ LoopIdle /\ HistoryIdle /\ DispatchIdle /\ StoreAsFound

\* the host hands one message to process_message
Receive ==
    /\ pc = "idle"
    /\ \E d \in Inputs : data' = d
    /\ pc' = "log"
    /\ UNCHANGED <<store, events, llmCalls, searches, raw_content, ingredients,
                   normalized, file, idx, link, results_lines, exc, sinkFailed,
                   providerFailed>>
    /\ UNCHANGED xvars

\* main.py:107-125: data.message[:100] raises on None
LogRequest ==
    /\ pc = "log"
    /\ IF data.message = NoneMsg
       THEN pc' = Except /\ exc' = "TypeError: 'NoneType' object is not subscriptable"
       ELSE pc' = "check_key" /\ exc' = exc
    /\ UNCHANGED <<data, store, events, llmCalls, searches, raw_content,
                   ingredients, normalized, file, idx, link, results_lines,
                   sinkFailed, providerFailed>>
    /\ UNCHANGED xvars

\* mutant of CheckKey: the user turn is appended before the credential check
CheckKey_AppendsFirst ==
    /\ pc = "check_key"
    /\ store' = add_message(store, data.thread_id, "user", data.message)
    /\ pc' = IF ~Truthy(vars_get(data.variables, "OPENAI_API_KEY"))
             THEN "nokey_chunk" ELSE "ack"
    /\ UNCHANGED <<data, events, llmCalls, searches, raw_content, ingredients,
                   normalized, file, idx, link, results_lines, exc, sinkFailed,
                   providerFailed>>
    /\ UNCHANGED xvars

\* main.py:128-140
CheckKey ==
    /\ pc = "check_key"
    /\ IF ~Truthy(vars_get(data.variables, "OPENAI_API_KEY"))
       THEN pc' = "nokey_chunk" /\ store' = store
       ELSE /\ pc' = "ack"
            /\ store' = add_message(store, data.thread_id, "user", data.message)
    /\ UNCHANGED <<data, events, llmCalls, searches, raw_content, ingredients,
                   normalized, file, idx, link, results_lines, exc, sinkFailed,
                   providerFailed>>
    /\ UNCHANGED xvars

\* main.py:133
StreamMissingKey ==
    /\ pc = "nokey_chunk"
    /\ SinkCall("stream_chunk", missing_key_msg, "nokey_complete", Except)
    /\ UNCHANGED <<data, store, llmCalls, searches, raw_content, ingredients,
                   normalized, file, idx, link, results_lines, providerFailed>>
    /\ UNCHANGED xvars

\* main.py:134-135
CompleteMissingKey ==
    /\ pc = "nokey_complete"
    /\ SinkCall("complete_response", missing_key_msg, "done", Except)
    /\ UNCHANGED <<data, store, llmCalls, searches, raw_content, ingredients,
                   normalized, file, idx, link, results_lines, providerFailed>>
    /\ UNCHANGED xvars

\* main.py:143-148
StreamAck ==
    /\ pc = "ack"
    /\ SinkCall("stream_chunk", ack_msg,
                IF is_greeting(data.message) THEN "greet_chunk" ELSE "model_call",
                Except)
    /\ UNCHANGED <<data, store, llmCalls, searches, raw_content, ingredients,
                   normalized, file, idx, link, results_lines, providerFailed>>
    /\ UNCHANGED xvars

\* main.py:150
StreamGreeting ==
    /\ pc = "greet_chunk"
    /\ SinkCall("stream_chunk", greet_reply, "greet_complete", Except)
    /\ UNCHANGED <<data, store, llmCalls, searches, raw_content, ingredients,
                   normalized, file, idx, link, results_lines, providerFailed>>
    /\ UNCHANGED xvars

\* main.py:151-152
CompleteGreeting ==
    /\ pc = "greet_complete"
    /\ SinkCall("complete_response", greet_reply, "done", Except)
    /\ UNCHANGED <<data, store, llmCalls, searches, raw_content, ingredients,
                   normalized, file, idx, link, results_lines, providerFailed>>
    /\ UNCHANGED xvars

\* main.py:166-171: the call raises
CallModelFails ==
    /\ pc = "model_call"
    /\ llmCalls' = llmCalls + 1
    /\ \E e \in ModelErrors : exc' = e
    /\ providerFailed' = TRUE
    /\ pc' = Except
    /\ UNCHANGED <<data, store, events, searches, raw_content, ingredients,
                   normalized, file, idx, link, results_lines, sinkFailed>>
    /\ UNCHANGED xvars

\* main.py:166-203: the call returns content; extraction and normalisation
CallModelReturns ==
    /\ pc = "model_call"
    /\ llmCalls' = llmCalls + 1
    /\ \E content \in RawContents \cup {<<>>} :
           raw_content' = IF content = <<>> THEN <<"[", "]">> ELSE content
    /\ ingredients' = extract_json_array(raw_content')
    /\ IF ingredients'.raised
       THEN /\ normalized' = normalized
            /\ exc' = "JSONDecodeError"
            /\ pc' = Except
       ELSE /\ normalized' = normalize(ingredients'.val)
            /\ exc' = exc
            /\ pc' = IF normalized' = <<>> THEN "no_items_chunk" ELSE "write_file"
    /\ UNCHANGED <<data, store, events, searches, file, idx, link,
                   results_lines, sinkFailed, providerFailed>>
    /\ UNCHANGED xvars

\* mutant of StreamNoItems: the turn goes on to the composition afterwards
StreamNoItems_FallsThrough ==
    /\ pc = "no_items_chunk"
    /\ SinkCall("stream_chunk", no_items_msg, "compose", Except)
    /\ UNCHANGED <<data, store, llmCalls, searches, raw_content, ingredients,
                   normalized, file, idx, link, results_lines, providerFailed>>
    /\ UNCHANGED xvars

\* main.py:205
StreamNoItems ==
    /\ pc = "no_items_chunk"
    /\ SinkCall("stream_chunk", no_items_msg, "no_items_complete", Except)
    /\ UNCHANGED <<data, store, llmCalls, searches, raw_content, ingredients,
                   normalized, file, idx, link, results_lines, providerFailed>>
    /\ UNCHANGED xvars

\* main.py:206-207
CompleteNoItems ==
    /\ pc = "no_items_complete"
    /\ SinkCall("complete_response", no_items_msg, "done", Except)
    /\ UNCHANGED <<data, store, llmCalls, searches, raw_content, ingredients,
                   normalized, file, idx, link, results_lines, providerFailed>>
    /\ UNCHANGED xvars

\* main.py:210-213: the write succeeds, or open raises
WriteFile ==
    /\ pc = "write_file"
    /\ \E ok \in BOOLEAN :
           IF ok
           THEN file' = normalized /\ pc' = "items_header" /\ exc' = exc
           ELSE file' = file /\ pc' = Except /\ exc' = "OSError"
    /\ UNCHANGED <<data, store, events, llmCalls, searches, raw_content,
                   ingredients, normalized, idx, link, results_lines,
                   sinkFailed, providerFailed>>
    /\ UNCHANGED xvars

\* main.py:214
StreamItemsHeader ==
    /\ pc = "items_header"
    /\ SinkCall("stream_chunk", items_header, "item_chunk", Except)
    /\ idx' = 1
    /\ UNCHANGED <<data, store, llmCalls, searches, raw_content, ingredients,
                   normalized, file, link, results_lines, providerFailed>>
    /\ UNCHANGED xvars

\* mutant of StreamItem: only the first item is streamed
StreamItem_Once ==
    /\ pc = "item_chunk"
    /\ SinkCall("stream_chunk", item_line(normalized[idx]), "count_chunk", Except)
    /\ idx' = idx + 1
    /\ UNCHANGED <<data, store, llmCalls, searches, raw_content, ingredients,
                   normalized, file, link, results_lines, providerFailed>>
    /\ UNCHANGED xvars

\* main.py:215-216
StreamItem ==
    /\ pc = "item_chunk"
    /\ SinkCall("stream_chunk", item_line(normalized[idx]),
                IF idx = Len(normalized) THEN "count_chunk" ELSE "item_chunk",
                Except)
    /\ idx' = idx + 1
    /\ UNCHANGED <<data, store, llmCalls, searches, raw_content, ingredients,
                   normalized, file, link, results_lines, providerFailed>>
    /\ UNCHANGED xvars

\* main.py:217-221
StreamCount ==
    /\ pc = "count_chunk"
    /\ SinkCall("stream_chunk", count_msg(Len(normalized)), "progress", Except)
    /\ results_lines' = <<results_header>>
    /\ idx' = 1
    /\ UNCHANGED <<data, store, llmCalls, searches, raw_content, ingredients,
                   normalized, file, link, providerFailed>>
    /\ UNCHANGED xvars

\* main.py:223-224, 226-228: a failure of this chunk is caught by the
\* handler of the loop body
StreamProgress ==
    /\ pc = "progress"
    /\ SinkCall("stream_chunk", progress_msg(normalized[idx]), "search", "result")
    /\ link' = None
    /\ UNCHANGED <<data, store, llmCalls, searches, raw_content, ingredients,
                   normalized, file, idx, results_lines, providerFailed>>
    /\ UNCHANGED xvars

\* mutant of Search: an exception of serper_first_link is not caught
Search_Uncaught ==
    /\ pc = "search"
    /\ \E answer \in ProviderAnswers :
           LET r == serper_first_link(data.variables, answer) IN
           /\ searches' = Append(searches, [ing |-> normalized[idx], result |-> r])
           /\ link' = IF r.raised THEN None ELSE r.val
           /\ providerFailed' = (providerFailed \/ r.raised)
           /\ pc' = IF r.raised THEN Except ELSE "result"
           /\ exc' = IF r.raised THEN r.detail ELSE exc
    /\ UNCHANGED <<data, store, events, llmCalls, raw_content, ingredients,
                   normalized, file, idx, results_lines, sinkFailed>>
    /\ UNCHANGED xvars

\* main.py:225-228
Search ==
    /\ pc = "search"
    /\ \E answer \in ProviderAnswers :
           LET r == serper_first_link(data.variables, answer) IN
           /\ searches' = Append(searches, [ing |-> normalized[idx], result |-> r])
           /\ link' = IF r.raised THEN None ELSE r.val
           /\ providerFailed' = (providerFailed \/ r.raised)
    /\ pc' = "result"
    /\ UNCHANGED <<data, store, events, llmCalls, raw_content, ingredients,
                   normalized, file, idx, results_lines, exc, sinkFailed>>
    /\ UNCHANGED xvars

\* the link as the f-strings of main.py:230-234 see it
LinkText == IF Truthy(link) THEN link ELSE ""

\* main.py:229-234
StreamResult ==
    /\ pc = "result"
    /\ SinkCall("stream_chunk", result_msg(normalized[idx], LinkText),
                IF idx = Len(normalized) THEN "compose" ELSE "progress",
                Except)
    /\ IF pc' = Except
       THEN results_lines' = results_lines /\ idx' = idx
       ELSE /\ results_lines' =
                   Append(results_lines, result_line(normalized[idx], LinkText))
            /\ idx' = idx + 1
    /\ UNCHANGED <<data, store, llmCalls, searches, raw_content, ingredients,
                   normalized, file, link, providerFailed>>
    /\ UNCHANGED xvars

\* main.py:236-241
final_response == compose(normalized, results_lines)

\* mutant of Compose: the response is not stored before it is delivered
Compose_Later ==
    /\ pc = "compose"
    /\ store' = store
    /\ pc' = "complete"
    /\ UNCHANGED <<data, events, llmCalls, searches, raw_content, ingredients,
                   normalized, file, idx, link, results_lines, exc, sinkFailed,
                   providerFailed>>
    /\ UNCHANGED xvars

\* main.py:236-243
Compose ==
    /\ pc = "compose"
    /\ store' = add_message(store, data.thread_id, "assistant", final_response)
    /\ pc' = "complete"
    /\ UNCHANGED <<data, events, llmCalls, searches, raw_content, ingredients,
                   normalized, file, idx, link, results_lines, exc, sinkFailed,
                   providerFailed>>
    /\ UNCHANGED xvars

\* main.py:244-246
CompleteFinal ==
    /\ pc = "complete"
    /\ SinkCall("complete_response", final_response, "done", Except)
    /\ UNCHANGED <<data, store, llmCalls, searches, raw_content, ingredients,
                   normalized, file, idx, link, results_lines, providerFailed>>
    /\ UNCHANGED xvars

\* main.py:248-251: a failure of send_error leaves process_message
SendError ==
    /\ pc = Except
    /\ \E ok \in BOOLEAN :
        /\ events' = Append(events, Event("send_error", error_msg(exc), ok))
        /\ pc' = IF ok THEN "done" ELSE "raised"
        /\ sinkFailed' = (sinkFailed \/ ~ok)
    /\ UNCHANGED <<data, store, llmCalls, searches, raw_content, ingredients,
                   normalized, file, idx, link, results_lines, exc,
                   providerFailed>>
    /\ UNCHANGED xvars

Next ==
    \/ Receive
    \/ LogRequest
    \/ CheckKey
    \/ StreamMissingKey
    \/ CompleteMissingKey
    \/ StreamAck
    \/ StreamGreeting
    \/ CompleteGreeting
    \/ CallModelFails
    \/ CallModelReturns
    \/ StreamNoItems
    \/ CompleteNoItems
    \/ WriteFile
    \/ StreamItemsHeader
    \/ StreamItem
    \/ StreamCount
    \/ StreamProgress
    \/ Search
    \/ StreamResult
    \/ Compose
    \/ CompleteFinal
    \/ SendError

Spec == Init /\ [][Next]_vars

---------------------------------------------------------------------------
(* _extract_json_array on every text of at most MaxLen tokens. *)

Alphabet == {"[", "]", "{", "}", ",", "k:", "'a'", "x"}

SeqsUpTo(S, n) == UNION {[1..k -> S] : k \in 0..n}

Idle ==
    /\ data = NoData
    /\ store = EmptyStore
    /\ events = <<>>
    /\ llmCalls = 0
    /\ searches = <<>>
    /\ file = <<>>
    /\ idx = 0
    /\ link = None
    /\ results_lines = <<>>
    /\ exc = ""
    /\ sinkFailed = FALSE
    /\ providerFailed = FALSE

InitExtract ==
    /\ pc = "extract_input"
    /\ \E k \in 0..MaxLen : raw_content \in [1..k -> Alphabet]
    /\ ingredients = Returned(V_list(<<>>))
    /\ normalized = <<>>
    /\ Idle
    /\ LoopIdle /\ HistoryIdle /\ DispatchIdle /\ StoreAsFound

\* main.py:187
ExtractText ==
    /\ pc = "extract_input"
    /\ ingredients' = extract_json_array(raw_content)
    /\ pc' = "extract_output"
    /\ UNCHANGED <<data, store, events, llmCalls, searches, raw_content,
                   normalized, file, idx, link, results_lines, exc, sinkFailed,
                   providerFailed>>
    /\ UNCHANGED xvars

SpecExtract == InitExtract /\ [][ExtractText]_vars

---------------------------------------------------------------------------
(* The normalisation of main.py:188-201 on every parsed value of at most   *)
(* MaxItems elements.                                                      *)

Member(key, val) == [key |-> key, val |-> val]

Elements ==
    {V_str(StrLit[tok]) : tok \in DOMAIN StrLit}
    \cup { V_dict(<<Member("name", V_str(<<"a">>))>>),
           V_dict(<<Member("name", V_str(<<" ">>))>>),
           V_dict(<<Member("name", V_num)>>),
           V_dict(<<Member("k", V_str(<<"b">>)), Member("name", V_null)>>),
           V_dict(<<Member("k", V_str(<<"b">>))>>),
           V_dict(<<>>),
           V_num,
           V_null,
           V_list(<<V_str(<<"b">>)>>) }

ParsedValues ==
    {V_list(xs) : xs \in SeqsUpTo(Elements, MaxItems)}
    \cup {V_dict(<<Member("name", V_str(<<"a">>))>>), V_str(<<"a">>), V_num, V_null}

InitNormalize ==
    /\ pc = "normalize_input"
    /\ raw_content = <<>>
    /\ ingredients \in {Returned(val) : val \in ParsedValues}
    /\ normalized = <<>>
    /\ Idle
    /\ LoopIdle /\ HistoryIdle /\ DispatchIdle /\ StoreAsFound

\* main.py:188-201
NormalizeValue ==
    /\ pc = "normalize_input"
    /\ normalized' = normalize(ingredients.val)
    /\ pc' = "normalize_output"
    /\ UNCHANGED <<data, store, events, llmCalls, searches, raw_content,
                   ingredients, file, idx, link, results_lines, exc,
                   sinkFailed, providerFailed>>
    /\ UNCHANGED xvars

SpecNormalize == InitNormalize /\ [][NormalizeValue]_vars

---------------------------------------------------------------------------
(* Several turns on the event loop of the host (main.py:76, 262-267, 286). *)
(* process_message is a coroutine function whose body holds no await: the  *)
(* loop that runs it gets control back only when it returns, and its       *)
(* external calls (main.py:166-171, 210-213, 225) are ordinary blocking    *)
(* calls made on the loop's thread.                                        *)

Requests == {"r1", "r2", "r3"}

\* lists of more than one item are looked up one by one
LookupCounts == 1..MaxList

Task(at, left) == [at |-> at, left |-> left]

\* the process_message variables, unused
MessageIdle ==
    /\ raw_content = <<>>
    /\ ingredients = Returned(V_list(<<>>))
    /\ normalized = <<>>
    /\ Idle

InitLoop ==
    /\ pc = "serving"
    /\ tasks = [r \in Requests |-> Task("none", 0)]
    /\ loop = None
    /\ MessageIdle /\ HistoryIdle /\ DispatchIdle /\ StoreAsFound

\* the position of one task changes, and with it the holder of the loop
Move(r, at, left, holder) ==
    /\ tasks' = [tasks EXCEPT ![r] = Task(at, left)]
    /\ loop' = holder
    /\ UNCHANGED <<pc, data, store, events, llmCalls, searches, raw_content,
                   ingredients, normalized, file, idx, link, results_lines,
                   exc, sinkFailed, providerFailed, hvars, dvars, pvars>>

\* a request arrives and the host schedules process_message(data) for it
Schedule(r) ==
    /\ tasks[r].at = "none"
    /\ Move(r, "scheduled", 0, loop)

\* the loop, running nothing else, starts the coroutine: main.py:105-165
StartTurn(r) ==
    /\ loop = None
    /\ tasks[r].at = "scheduled"
    /\ Move(r, "before_model", 0, r)

\* main.py:135, 152: the turn returns before any external call
ReturnEarly(r) ==
    /\ loop = r
    /\ tasks[r].at = "before_model"
    /\ Move(r, "done", 0, None)

\* main.py:166: client.chat.completions.create is entered
EnterModelCall(r) ==
    /\ loop = r
    /\ tasks[r].at = "before_model"
    /\ Move(r, "in_model_call", 0, r)

\* main.py:171-207: the call returns a list to look up, or the turn is over
LeaveModelCall(r) ==
    /\ loop = r
    /\ tasks[r].at = "in_model_call"
    /\ \/ \E n \in LookupCounts : Move(r, "before_write", n, r)
       \/ Move(r, "returning", 0, r)

\* main.py:211: open and write are entered
EnterFileWrite(r) ==
    /\ loop = r
    /\ tasks[r].at = "before_write"
    /\ Move(r, "in_file_write", tasks[r].left, r)

\* main.py:213-221: the write returns, or raises
LeaveFileWrite(r) ==
    /\ loop = r
    /\ tasks[r].at = "in_file_write"
    /\ \/ Move(r, "before_search", tasks[r].left, r)
       \/ Move(r, "returning", 0, r)

\* main.py:225, search_handler.py:427: requests.post is entered
EnterSearch(r) ==
    /\ loop = r
    /\ tasks[r].at = "before_search"
    /\ Move(r, "in_search", tasks[r].left, r)

\* main.py:226-234: the request returns or raises, and the loop goes on
LeaveSearch(r) ==
    /\ loop = r
    /\ tasks[r].at = "in_search"
    /\ IF tasks[r].left > 1
       THEN Move(r, "before_search", tasks[r].left - 1, r)
       ELSE Move(r, "returning", 0, r)

\* main.py:236-251: the coroutine returns and the loop is free again
ReturnTurn(r) ==
    /\ loop = r
    /\ tasks[r].at = "returning"
    /\ Move(r, "done", 0, None)

\* a step of the turn of request r
TurnStep(r) ==
    \/ StartTurn(r)
    \/ ReturnEarly(r)
    \/ EnterModelCall(r)
    \/ LeaveModelCall(r)
    \/ EnterFileWrite(r)
    \/ LeaveFileWrite(r)
    \/ EnterSearch(r)
    \/ LeaveSearch(r)
    \/ ReturnTurn(r)

NextLoop == \E r \in Requests : Schedule(r) \/ TurnStep(r)

SpecLoop == InitLoop /\ [][NextLoop]_vars

---------------------------------------------------------------------------
(* The conversation store under any sequence of appends (main.py:139 and   *)
(* 243) on two threads.                                                    *)

InitStore ==
    /\ pc = "store"
    /\ appended = [th \in Threads |-> <<>>]
    /\ MessageIdle /\ LoopIdle /\ DispatchIdle /\ StoreAsFound

\* the text of the next turn of a thread: its ordinal on the thread
NextContent(th) == <<Len(appended[th]) + 1>>

AppendsLeft == Len(appended["t1"]) + Len(appended["t2"]) < MaxAppends

AppendTurn(th, role) ==
    /\ store' = add_message(store, th, role, NextContent(th))
    /\ appended' = [appended EXCEPT ![th] = Append(@, Turn(role, NextContent(th)))]
    /\ UNCHANGED <<pc, data, events, llmCalls, searches, raw_content,
                   ingredients, normalized, file, idx, link, results_lines,
                   exc, sinkFailed, providerFailed, lvars, dvars, pvars>>

\* main.py:139
AppendUserTurn(th) ==
    /\ pc = "store"
    /\ AppendsLeft
    /\ AppendTurn(th, "user")

\* main.py:243: the reply to the user turn that precedes it
AppendAssistantTurn(th) ==
    /\ pc = "store"
    /\ AppendsLeft
    /\ appended[th] # <<>>
    /\ appended[th][Len(appended[th])].role = "user"
    /\ AppendTurn(th, "assistant")

NextStore == \E th \in Threads : AppendUserTurn(th) \/ AppendAssistantTurn(th)

SpecStore == InitStore /\ [][NextStore]_vars

---------------------------------------------------------------------------
(* Texts of the dispatcher (search_handler.py).  A line records its fixed  *)
(* wording and the function name, the item or query, the URL or detail     *)
(* text and the number interpolated into it.                               *)

FLine(k, fn, item, url, n) ==
    [k |-> k, fn |-> fn, item |-> item, url |-> url, n |-> n]

\* search_handler.py:322
processing_msg(name) == <<FLine("processing", name, <<>>, "", 0)>>
\* search_handler.py:331
search_msg(query) == <<FLine("searching", "", query, "", 0)>>
\* search_handler.py:139
search_results(query) == <<FLine("search_results", "", query, "", 0)>>
\* search_handler.py:137
search_no_results(query) == <<FLine("search_no_results", "", query, "", 0)>>
\* search_handler.py:145-147
search_error(detail) == <<FLine("search_error", "", <<>>, detail, 0)>>
\* search_handler.py:346-348
menu_text_required == <<FLine("menu_text_required", "build_menu_gallery", <<>>, "", 0)>>
\* search_handler.py:351
building_msg == <<FLine("building", "", <<>>, "", 0)>>
\* search_handler.py:268
no_items_detected == <<FLine("no_items_detected", "", <<>>, "", 0)>>
\* search_handler.py:275
saved_msg(n) == <<FLine("saved", "", <<>>, "", n)>>
\* search_handler.py:277
gallery_header(n) == <<FLine("gallery_header", "", <<>>, "", n)>>
\* search_handler.py:279
item_header(i, item) == <<FLine("item_header", "", item, "", i)>>
\* search_handler.py:289
image_chunk(url) == <<FLine("image", "", <<>>, url, 0)>>
\* search_handler.py:291
image_line(i, item, url) == <<FLine("item_image", "", item, url, i)>>
\* search_handler.py:301
no_image_notice(item) == <<FLine("no_image", "", item, "", 0)>>
\* search_handler.py:354
built_msg(summary) == <<FLine("built", "", <<>>, "", 0)>> \o summary
\* search_handler.py:357-359
unknown_function_error(name) == <<FLine("unknown_function", name, <<>>, "", 0)>>
\* search_handler.py:362-365
execution_error(name, detail) == <<FLine("execution_error", name, <<>>, detail, 0)>>
\* search_handler.py:393-395
processing_error(detail) == <<FLine("processing_error", "", <<>>, detail, 0)>>

---------------------------------------------------------------------------
(* The function calls and their arguments. *)

\* a function call whose 'arguments' key is absent
NoArguments == <<None>>

\* a function call; name is None where function_call['function']['name']
\* raises KeyError
FunctionCall(name, arguments) == [name |-> name, arguments |-> arguments]

Outcome(raised, val, detail) == [raised |-> raised, val |-> val, detail |-> detail]

\* mutant of decode_arguments: arguments that do not decode count as {}
decode_arguments_lenient(call) ==
    IF call.arguments = NoArguments
    THEN Outcome(FALSE, V_dict(<<>>), "")
    ELSE
        LET loaded == json_loads(call.arguments) IN
        IF ~loaded.ok \/ loaded.val.t # "dict"
        THEN Outcome(FALSE, V_dict(<<>>), "")
        ELSE Outcome(FALSE, loaded.val, "")

\* json.loads(function_call["function"]["arguments"]) followed by the first
\* args.get, search_handler.py:326-327 and 342-343
decode_arguments(call) ==
    IF call.arguments = NoArguments
    THEN Outcome(TRUE, V_null, "KeyError: 'arguments'")
    ELSE
        LET loaded == json_loads(call.arguments) IN
        IF ~loaded.ok THEN Outcome(TRUE, V_null, "JSONDecodeError")
        ELSE IF loaded.val.t # "dict"
        THEN Outcome(TRUE, V_null, "AttributeError: no attribute 'get'")
        ELSE Outcome(FALSE, loaded.val, "")

\* args.get(key, default)
dict_get(args, key, default) ==
    LET at == {i \in DOMAIN args.v : args.v[i].key = key} IN
    IF at = {} THEN default
    ELSE args.v[CHOOSE i \in at : \A k \in at : k <= i].val

\* the integer a number value denotes
int_of(val) == IF val.v = <<>> THEN 1 ELSE val.v[1]

\* truth value of a Python value
py_truthy(val) ==
    IF val.t = "null" THEN FALSE
    ELSE IF val.t = "num" THEN int_of(val) # 0
    ELSE val.v # <<>>

\* the query as the f-string of search_handler.py:331 shows it
query_text(args) ==
    LET query == dict_get(args, "query", V_null) IN
    IF query.t = "str" THEN query.v ELSE py_str(query)

\* max(1, min(results_per_item or 1, 3)), search_handler.py:265: min raises
\* TypeError on a value that is not a number
clamp_results(val) ==
    IF ~py_truthy(val) THEN Outcome(FALSE, 1, "")
    ELSE IF val.t # "num" THEN Outcome(TRUE, 0, "TypeError: '<' not supported")
    ELSE
        LET n == int_of(val)
            low == IF n < 3 THEN n ELSE 3
        IN Outcome(FALSE, IF low > 1 THEN low ELSE 1, "")

\* _parse_menu_items(menu_text), search_handler.py:266: splitlines raises
\* AttributeError on a value that is not a string
parse_menu(val) ==
    IF val.t # "str" THEN Outcome(TRUE, <<>>, "AttributeError: no attribute 'splitlines'")
    ELSE Outcome(FALSE, parse_menu_items(val.v), "")

---------------------------------------------------------------------------
(* The search provider as the dispatcher uses it. *)

SearchAnswers == {"http_error", "no_organic", "results"}

\* google_search(query, num_results, variables), search_handler.py:80-147,
\* on the provider's answer: every failure is returned as text
google_search(query, variables, answer) ==
    IF ~Truthy(vars_get(variables, "SERPER_API_KEY"))
    THEN search_error("ValueError: Serper API key not found")
    ELSE IF answer = "http_error" THEN search_error("HTTPError")
    ELSE IF answer = "no_organic" THEN search_no_results(query)
    ELSE search_results(query)

Images == {"I1"}
ImageAnswers == {"http_error", "no_images"} \cup Images

\* _serper_image_search(query, variables), search_handler.py:212-255, on the
\* provider's answer
serper_image_search(variables, answer) ==
    IF ~Truthy(vars_get(variables, "SERPER_API_KEY"))
    THEN Outcome(TRUE, None, "ValueError: Serper API key not found")
    ELSE IF answer = "http_error" THEN Outcome(TRUE, None, "HTTPError")
    ELSE IF answer = "no_images" THEN Outcome(FALSE, None, "")
    ELSE Outcome(FALSE, answer, "")

---------------------------------------------------------------------------
(* process_function_calls, execute_function_call and build_menu_gallery,   *)
(* search_handler.py:257-397.                                              *)

ArgsQuery == <<"{", "query:", "'a'", "}">>
ArgsTruncated == <<"{", "query:">>
ArgsArray == <<"[", "1", "]">>
ArgsEmpty == <<"{", "}">>
ArgsEmptyMenu == <<"{", "menu_text:", "''", "}">>
ArgsNumberMenu == <<"{", "menu_text:", "1", "}">>
ArgsNoItems == <<"{", "menu_text:", "'menu\n$5'", "}">>
ArgsOneItemTwo ==
    <<"{", "menu_text:", "'Ab\n\nAb\na'", ",", "results_per_item:", "2", "}">>
ArgsOneItemText ==
    <<"{", "menu_text:", "'Ab\n\nAb\na'", ",", "results_per_item:", "'a'", "}">>
ArgsOneItemZero ==
    <<"{", "menu_text:", "'Ab\n\nAb\na'", ",", "results_per_item:", "0", "}">>
ArgsOneItemFive ==
    <<"{", "menu_text:", "'Ab\n\nAb\na'", ",", "results_per_item:", "5", "}">>
ArgsTwoItems == <<"{", "menu_text:", "'- ab\ncd $5'", "}">>

\* calls that end after few steps
ShortCalls ==
    { FunctionCall("get_weather", ArgsQuery),
      FunctionCall(None, ArgsQuery),
      FunctionCall("google_search", ArgsQuery),
      FunctionCall("google_search", ArgsTruncated),
      FunctionCall("google_search", NoArguments),
      FunctionCall("build_menu_gallery", ArgsArray),
      FunctionCall("build_menu_gallery", ArgsEmpty),
      FunctionCall("build_menu_gallery", ArgsEmptyMenu),
      FunctionCall("build_menu_gallery", ArgsNumberMenu),
      FunctionCall("build_menu_gallery", ArgsNoItems),
      FunctionCall("build_menu_gallery", ArgsOneItemText) }

\* calls that build a gallery
GalleryCalls ==
    { FunctionCall("build_menu_gallery", ArgsOneItemTwo),
      FunctionCall("build_menu_gallery", ArgsOneItemZero),
      FunctionCall("build_menu_gallery", ArgsOneItemFive),
      FunctionCall("build_menu_gallery", ArgsTwoItems) }

\* the lists handed to process_function_calls: at most one gallery per list
CallLists ==
    UNION { { l \in [1..k -> ShortCalls \cup GalleryCalls] :
                Cardinality({i \in 1..k : l[i] \in GalleryCalls}) <= 1 }
            : k \in 0..MaxCalls }

DispatchInputs ==
    [thread_id : {"t1"}, message : {MsgDish},
     variables : [OPENAI_API_KEY : {"key"}, SERPER_API_KEY : {None, "key"}]]

\* the variables the dispatcher leaves alone
undispatched ==
    <<data, function_calls, store, llmCalls, searches, raw_content,
      ingredients, normalized, file, idx, link, results_lines,
      providerFailed, lvars, hvars, pvars>>

\* the locals of execute_function_call and build_menu_gallery
frame ==
    <<call_result, menu_items, item_idx, attempt, found_any, combined,
      results_per_item>>

\* the state of the loop of process_function_calls
progress == <<call_idx, call_log, combined_result>>

\* the sink as the dispatcher sees it
sink == <<events, event_call, sinkFailed>>

InitDispatch ==
    /\ pc = "pfc_entry"
    /\ data \in DispatchInputs
    /\ function_calls \in CallLists
    /\ store = EmptyStore
    /\ events = <<>>
    /\ llmCalls = 0
    /\ searches = <<>>
    /\ raw_content = <<>>
    /\ ingredients = Returned(V_list(<<>>))
    /\ normalized = <<>>
    /\ file = <<>>
    /\ idx = 0
    /\ link = None
    /\ results_lines = <<>>
    /\ exc = ""
    /\ sinkFailed = FALSE
    /\ providerFailed = FALSE
    /\ call_idx = 0
    /\ combined_result = <<>>
    /\ call_log = <<>>
    /\ call_result = <<>>
    /\ menu_items = <<>>
    /\ item_idx = 0
    /\ attempt = 0
    /\ found_any = FALSE
    /\ combined = <<>>
    /\ results_per_item = 0
    /\ menu_file = <<>>
    /\ effects = <<>>
    /\ event_call = <<>>
    /\ LoopIdle /\ HistoryIdle /\ StoreAsFound

\* the call being executed and its decoded arguments
function_call == function_calls[call_idx]
function_name == function_call.name
decoded == decode_arguments(function_call)

\* lexia_handler.stream_chunk(data, text): it returns (ok) or raises
Chunk(ok, text) ==
    /\ events' = Append(events, Event("stream_chunk", text, ok))
    /\ event_call' = Append(event_call, call_idx)
    /\ sinkFailed' = (sinkFailed \/ ~ok)

\* an exception reaches the handler of execute_function_call
Raise(detail) == pc' = "efc_except" /\ exc' = detail

\* something done outside the sink, as the claims see it
Effect(op, item, outcome) ==
    [call |-> call_idx, op |-> op, item |-> item, outcome |-> outcome]

\* the locals of the call are gone
FrameGone ==
    /\ call_result' = <<>>
    /\ menu_items' = <<>>
    /\ item_idx' = 0
    /\ attempt' = 0
    /\ found_any' = FALSE
    /\ combined' = <<>>
    /\ results_per_item' = 0

\* where process_function_calls goes after the call, search_handler.py:387
NextCallPc == IF call_idx = Len(function_calls) THEN "done" ELSE "efc_entry"

\* execute_function_call returns text, and search_handler.py:389-390
EndCall(text) ==
    /\ call_log' = Append(call_log, [result |-> text, raised |-> FALSE])
    /\ combined_result' = combined_result \o text
    /\ call_idx' = call_idx + 1
    /\ pc' = NextCallPc
    /\ exc' = ""
    /\ FrameGone

\* search_handler.py:379-385
PfcEnter ==
    /\ pc = "pfc_entry"
    /\ IF function_calls = <<>>
       THEN pc' = "done" /\ call_idx' = call_idx
       ELSE pc' = "efc_entry" /\ call_idx' = 1
    /\ UNCHANGED <<undispatched, frame, sink, call_log, combined_result,
                   menu_file, effects, exc>>

\* search_handler.py:318-319
EfcName ==
    /\ pc = "efc_entry"
    /\ IF function_name = None
       THEN Raise("KeyError: 'function'")
       ELSE pc' = "efc_processing" /\ exc' = exc
    /\ UNCHANGED <<undispatched, frame, sink, progress, menu_file, effects>>

\* search_handler.py:322-323
EfcProcessing ==
    /\ pc = "efc_processing"
    /\ \E ok \in BOOLEAN :
        /\ Chunk(ok, processing_msg(function_name))
        /\ IF ok THEN pc' = "efc_dispatch" /\ exc' = exc ELSE Raise("sink error")
    /\ UNCHANGED <<undispatched, frame, progress, menu_file, effects>>

\* search_handler.py:325-328
EfcGoogleSearch ==
    /\ pc = "efc_dispatch"
    /\ function_name = "google_search"
    /\ IF decoded.raised
       THEN Raise(decoded.detail)
       ELSE pc' = "gs_announce" /\ exc' = exc
    /\ UNCHANGED <<undispatched, frame, sink, progress, menu_file, effects>>

\* search_handler.py:331-332
GsAnnounce ==
    /\ pc = "gs_announce"
    /\ \E ok \in BOOLEAN :
        /\ Chunk(ok, search_msg(query_text(decoded.val)))
        /\ IF ok THEN pc' = "gs_search" /\ exc' = exc ELSE Raise("sink error")
    /\ UNCHANGED <<undispatched, frame, progress, menu_file, effects>>

\* search_handler.py:335
GsSearch ==
    /\ pc = "gs_search"
    /\ \E answer \in SearchAnswers :
        LET text == google_search(query_text(decoded.val), data.variables, answer) IN
        /\ call_result' = text
        /\ effects' = Append(effects, Effect("google_search", query_text(decoded.val), text))
    /\ pc' = "gs_stream"
    /\ UNCHANGED <<undispatched, sink, progress, menu_items, item_idx, attempt,
                   found_any, combined, results_per_item, menu_file, exc>>

\* search_handler.py:338-340
GsStream ==
    /\ pc = "gs_stream"
    /\ \E ok \in BOOLEAN :
        /\ Chunk(ok, call_result)
        /\ IF ok
           THEN EndCall(call_result)
           ELSE Raise("sink error") /\ UNCHANGED <<frame, progress>>
    /\ UNCHANGED <<undispatched, menu_file, effects>>

\* search_handler.py:341-348
EfcMenuGallery ==
    /\ pc = "efc_dispatch"
    /\ function_name = "build_menu_gallery"
    /\ IF decoded.raised
       THEN Raise(decoded.detail) /\ UNCHANGED <<frame, progress>>
       ELSE IF ~py_truthy(dict_get(decoded.val, "menu_text", V_str(<<>>)))
       THEN EndCall(menu_text_required)
       ELSE pc' = "bmg_announce" /\ exc' = exc /\ UNCHANGED <<frame, progress>>
    /\ UNCHANGED <<undispatched, sink, menu_file, effects>>

\* mutant of EfcUnknownFunction: an unknown name raises
EfcUnknownFunction_Raises ==
    /\ pc = "efc_dispatch"
    /\ function_name \notin {"google_search", "build_menu_gallery"}
    /\ Raise("ValueError: unknown function")
    /\ UNCHANGED <<undispatched, frame, sink, progress, menu_file, effects>>

\* search_handler.py:356-359
EfcUnknownFunction ==
    /\ pc = "efc_dispatch"
    /\ function_name \notin {"google_search", "build_menu_gallery"}
    /\ EndCall(unknown_function_error(function_name))
    /\ UNCHANGED <<undispatched, sink, menu_file, effects>>

\* search_handler.py:351
BmgAnnounce ==
    /\ pc = "bmg_announce"
    /\ \E ok \in BOOLEAN :
        /\ Chunk(ok, building_msg)
        /\ IF ok THEN pc' = "bmg_start" /\ exc' = exc ELSE Raise("sink error")
    /\ UNCHANGED <<undispatched, frame, progress, menu_file, effects>>

\* the arguments of build_menu_gallery, search_handler.py:343-344
menu_text == dict_get(decoded.val, "menu_text", V_str(<<>>))
requested_results == dict_get(decoded.val, "results_per_item", V_num)

\* search_handler.py:265-274: the clamp, the parse and the file write, which
\* succeeds or raises
BmgStart ==
    /\ pc = "bmg_start"
    /\ LET clamped == clamp_results(requested_results)
           parsed == parse_menu(menu_text)
       IN
       IF clamped.raised
       THEN /\ Raise(clamped.detail)
            /\ UNCHANGED <<results_per_item, menu_items, menu_file, effects>>
       ELSE IF parsed.raised
       THEN /\ Raise(parsed.detail)
            /\ results_per_item' = clamped.val
            /\ effects' = Append(effects, Effect("parse", <<>>, parsed))
            /\ UNCHANGED <<menu_items, menu_file>>
       ELSE IF parsed.val = <<>>
       THEN /\ pc' = "bmg_built"
            /\ exc' = exc
            /\ results_per_item' = clamped.val
            /\ menu_items' = <<>>
            /\ effects' = Append(effects, Effect("parse", <<>>, parsed))
            /\ UNCHANGED menu_file
       ELSE \E ok \in BOOLEAN :
            /\ results_per_item' = clamped.val
            /\ menu_items' = parsed.val
            /\ effects' = effects \o <<Effect("parse", <<>>, parsed),
                                      Effect("write", <<>>, Outcome(~ok, parsed.val, ""))>>
            /\ IF ok
               THEN pc' = "bmg_saved" /\ exc' = exc /\ menu_file' = parsed.val
               ELSE Raise("OSError") /\ menu_file' = menu_file
    /\ UNCHANGED <<undispatched, sink, progress, call_result, item_idx,
                   attempt, found_any, combined>>

\* search_handler.py:275-278
BmgSaved ==
    /\ pc = "bmg_saved"
    /\ \E ok \in BOOLEAN :
        /\ Chunk(ok, saved_msg(Len(menu_items)))
        /\ IF ok THEN pc' = "bmg_item" /\ exc' = exc ELSE Raise("sink error")
    /\ combined' = <<gallery_header(Len(menu_items))>>
    /\ item_idx' = 1
    /\ UNCHANGED <<undispatched, progress, call_result, menu_items, attempt,
                   found_any, results_per_item, menu_file, effects>>

\* search_handler.py:279-283
BmgItem ==
    /\ pc = "bmg_item"
    /\ \E ok \in BOOLEAN :
        /\ Chunk(ok, item_header(item_idx, menu_items[item_idx]))
        /\ IF ok THEN pc' = "bmg_search" /\ exc' = exc ELSE Raise("sink error")
    /\ found_any' = FALSE
    /\ attempt' = 0
    /\ UNCHANGED <<undispatched, progress, call_result, menu_items, item_idx,
                   combined, results_per_item, menu_file, effects>>

\* where build_menu_gallery goes after an item that needs no notice,
\* search_handler.py:278 and 303
NextItemPc == IF item_idx = Len(menu_items) THEN "bmg_built" ELSE "bmg_item"

\* mutant of BmgSearch: a failure of the image search is not caught
BmgSearch_Propagates ==
    /\ pc = "bmg_search"
    /\ \E answer \in ImageAnswers :
        LET found == serper_image_search(data.variables, answer) IN
        /\ effects' = Append(effects, Effect("image_search", menu_items[item_idx], found))
        /\ IF found.raised
           THEN /\ Raise(found.detail)
                /\ found_any' = found_any
                /\ item_idx' = item_idx
           ELSE IF Truthy(found.val)
           THEN /\ found_any' = TRUE
                /\ pc' = "bmg_image"
                /\ item_idx' = item_idx
                /\ exc' = exc
           ELSE /\ found_any' = found_any
                /\ pc' = IF found_any THEN NextItemPc ELSE "bmg_notice"
                /\ item_idx' = IF found_any THEN item_idx + 1 ELSE item_idx
                /\ exc' = exc
    /\ UNCHANGED <<undispatched, sink, progress, call_result, menu_items,
                   attempt, combined, results_per_item, menu_file>>

\* mutant of BmgSearch: after a miss or a failure the next attempt is made
BmgSearch_Retries ==
    /\ pc = "bmg_search"
    /\ \E answer \in ImageAnswers :
        LET found == serper_image_search(data.variables, answer)
            last == attempt + 1 >= results_per_item
        IN
        /\ effects' = Append(effects, Effect("image_search", menu_items[item_idx], found))
        /\ IF ~found.raised /\ Truthy(found.val)
           THEN /\ found_any' = TRUE
                /\ pc' = "bmg_image"
                /\ item_idx' = item_idx
                /\ attempt' = attempt
           ELSE /\ found_any' = found_any
                /\ attempt' = attempt + 1
                /\ pc' = IF ~last THEN "bmg_search"
                         ELSE IF found_any THEN NextItemPc ELSE "bmg_notice"
                /\ item_idx' = IF last /\ found_any THEN item_idx + 1 ELSE item_idx
    /\ UNCHANGED <<undispatched, sink, progress, call_result, menu_items,
                   combined, results_per_item, menu_file, exc>>

\* search_handler.py:284-287 and 292-300: one image search; a miss or a
\* failure leaves the loop over the attempts
BmgSearch ==
    /\ pc = "bmg_search"
    /\ \E answer \in ImageAnswers :
        LET found == serper_image_search(data.variables, answer) IN
        /\ effects' = Append(effects, Effect("image_search", menu_items[item_idx], found))
        /\ IF ~found.raised /\ Truthy(found.val)
           THEN /\ found_any' = TRUE
                /\ pc' = "bmg_image"
                /\ item_idx' = item_idx
           ELSE /\ found_any' = found_any
                /\ pc' = IF found_any THEN NextItemPc ELSE "bmg_notice"
                /\ item_idx' = IF found_any THEN item_idx + 1 ELSE item_idx
    /\ UNCHANGED <<undispatched, sink, progress, call_result, menu_items,
                   attempt, combined, results_per_item, menu_file, exc>>

\* the URL found by the search that precedes
image_url == effects[Len(effects)].outcome.val

\* search_handler.py:289-291 and 295-297: a failure of the chunk is caught
\* by the handler of the attempt, which leaves the loop
BmgImage ==
    /\ pc = "bmg_image"
    /\ \E ok \in BOOLEAN :
        /\ Chunk(ok, image_chunk(image_url))
        /\ IF ok /\ attempt + 1 < results_per_item
           THEN pc' = "bmg_search" /\ item_idx' = item_idx
           ELSE pc' = NextItemPc /\ item_idx' = item_idx + 1
        /\ combined' =
               IF ok
               THEN Append(combined, image_line(item_idx, menu_items[item_idx], image_url))
               ELSE combined
    /\ attempt' = attempt + 1
    /\ UNCHANGED <<undispatched, progress, call_result, menu_items, found_any,
                   results_per_item, menu_file, effects, exc>>

\* search_handler.py:300-301
BmgNotice ==
    /\ pc = "bmg_notice"
    /\ \E ok \in BOOLEAN :
        /\ Chunk(ok, no_image_notice(menu_items[item_idx]))
        /\ IF ok
           THEN pc' = NextItemPc /\ exc' = exc /\ item_idx' = item_idx + 1
           ELSE Raise("sink error") /\ item_idx' = item_idx
    /\ UNCHANGED <<undispatched, progress, call_result, menu_items, attempt,
                   found_any, combined, results_per_item, menu_file, effects>>

\* the text build_menu_gallery returns, search_handler.py:267-270 and 303
summary == IF menu_items = <<>> THEN no_items_detected ELSE join_lines(combined)

\* search_handler.py:354-355
BmgBuilt ==
    /\ pc = "bmg_built"
    /\ \E ok \in BOOLEAN :
        /\ Chunk(ok, built_msg(summary))
        /\ IF ok
           THEN EndCall(summary)
           ELSE Raise("sink error") /\ UNCHANGED <<frame, progress>>
    /\ UNCHANGED <<undispatched, menu_file, effects>>

\* search_handler.py:361-365: the handler looks the name up again
EfcExcept ==
    /\ pc = "efc_except"
    /\ IF function_name = None
       THEN /\ pc' = "pfc_except"
            /\ exc' = "KeyError: 'function'"
            /\ UNCHANGED <<frame, progress>>
       ELSE EndCall(execution_error(function_name, exc))
    /\ UNCHANGED <<undispatched, sink, menu_file, effects>>

\* mutant of PfcExcept: the handler leaves the loop over the calls
PfcExcept_Aborts ==
    /\ pc = "pfc_except"
    /\ call_log' = Append(call_log, [result |-> processing_error(exc), raised |-> TRUE])
    /\ combined_result' = combined_result \o processing_error(exc)
    /\ call_idx' = call_idx + 1
    /\ pc' = "done"
    /\ exc' = ""
    /\ FrameGone
    /\ UNCHANGED <<undispatched, sink, menu_file, effects>>

\* search_handler.py:392-395
PfcExcept ==
    /\ pc = "pfc_except"
    /\ call_log' = Append(call_log, [result |-> processing_error(exc), raised |-> TRUE])
    /\ combined_result' = combined_result \o processing_error(exc)
    /\ call_idx' = call_idx + 1
    /\ pc' = NextCallPc
    /\ exc' = ""
    /\ FrameGone
    /\ UNCHANGED <<undispatched, sink, menu_file, effects>>

NextDispatch ==
    \/ PfcEnter
    \/ EfcName
    \/ EfcProcessing
    \/ EfcGoogleSearch
    \/ GsAnnounce
    \/ GsSearch
    \/ GsStream
    \/ EfcMenuGallery
    \/ EfcUnknownFunction
    \/ BmgAnnounce
    \/ BmgStart
    \/ BmgSaved
    \/ BmgItem
    \/ BmgSearch
    \/ BmgImage
    \/ BmgNotice
    \/ BmgBuilt
    \/ EfcExcept
    \/ PfcExcept

SpecDispatch == InitDispatch /\ [][NextDispatch]_vars

---------------------------------------------------------------------------
(* Vocabulary of the claims. *)

\* process_message has returned, or has been left by an exception
Finished == pc \in {"done", "raised"}

\* the turn carries a language-model credential
HasModelKey == Truthy(data.variables.OPENAI_API_KEY)

EventsOf(ops) == SelectSeq(events, LAMBDA e : e.op \in ops)

Chunks == EventsOf({"stream_chunk"})
Completions == EventsOf({"complete_response"})
Errors == EventsOf({"send_error"})
Notifications == EventsOf(Terminals)

ChunkOk(text) == Event("stream_chunk", text, TRUE)
CompleteOk(text) == Event("complete_response", text, TRUE)

IsPrefix(s, t) == Len(s) <= Len(t) /\ s = SubSeq(t, 1, Len(s))

---------------------------------------------------------------------------
(* C1 *)

\* C1: in every turn exactly one of complete_response and send_error is
\* issued: never both at any moment, and one of them once the turn is over.
C1_NotifiedExactlyOnce ==
    /\ Len(Notifications) <= 1
    /\ Finished => Len(Notifications) = 1

---------------------------------------------------------------------------
(* C2 *)

\* C2: a turn without a language-model credential (absent or empty) ends
\* with the credential-missing message through complete_response and never
\* with send_error, whatever its other fields are.  Stated for the turns
\* whose sink calls all return.
C2_MissingKeyGraceful ==
    (Finished /\ ~HasModelKey /\ ~sinkFailed) =>
        /\ events = <<ChunkOk(missing_key_msg), CompleteOk(missing_key_msg)>>
        /\ Errors = <<>>

---------------------------------------------------------------------------
(* C3 *)

\* C3: a failure of the language-model call or of a search call never takes
\* the turn to the top-level handler nor to send_error.  Stated for the
\* turns whose sink calls all return.
C3_ProviderErrorNeverAborts ==
    (providerFailed /\ ~sinkFailed) => (pc # Except /\ Errors = <<>>)

---------------------------------------------------------------------------
(* C4 *)

IsHelloTurn == pc # "idle" /\ data.message = MsgHello /\ HasModelKey

\* C4 as stated: for "hello" the stream carries one chunk, the greeting,
\* then one complete_response with the same text; no model or search call.
C4_HelloOneChunk ==
    (IsHelloTurn /\ pc = "done" /\ ~sinkFailed) =>
        /\ events = <<ChunkOk(greet_reply), CompleteOk(greet_reply)>>
        /\ llmCalls = 0
        /\ searches = <<>>

\* C4 amended: for "hello" no model call and no search call is ever made;
\* the chunks issued are, in order, the acknowledgment and the greeting; a
\* complete_response carries the greeting and comes after both chunks; and
\* when every sink call returns the turn ends with exactly acknowledgment
\* chunk, greeting chunk, complete_response(greeting).
C4_HelloTwoChunks ==
    IsHelloTurn =>
        /\ llmCalls = 0
        /\ searches = <<>>
        /\ IsPrefix([i \in 1..Len(Chunks) |-> Chunks[i].text], <<ack_msg, greet_reply>>)
        /\ Len(Completions) <= 1
        /\ \A i \in 1..Len(events) :
               events[i].op = "complete_response" =>
                   /\ events[i].text = greet_reply
                   /\ SubSeq(events, 1, i - 1) = <<ChunkOk(ack_msg), ChunkOk(greet_reply)>>
        /\ (Finished /\ ~sinkFailed) =>
               events = <<ChunkOk(ack_msg), ChunkOk(greet_reply), CompleteOk(greet_reply)>>

C4_Witness ==
    /\ pc = "done"
    /\ data.message = MsgHello
    /\ events = <<ChunkOk(ack_msg), ChunkOk(greet_reply), CompleteOk(greet_reply)>>

---------------------------------------------------------------------------
(* C5 *)

\* the messages of the model that are a greeting phrase up to letter case
\* and surrounding whitespace
GreetingMessages == {MsgHello, MsgHolaMixed, MsgBuenas}

\* C5: in a turn whose message is a greeting phrase up to case and
\* surrounding whitespace, the language model is never called and the turn
\* never reaches the extraction flow; with a credential present, every
\* complete_response carries the canned greeting, and when every sink call
\* returns the turn ends with complete_response(greeting) and no send_error.
C5_GreetingShortCircuit ==
    (pc # "idle" /\ data.message \in GreetingMessages) =>
        /\ llmCalls = 0
        /\ pc \notin {"model_call", "no_items_chunk", "write_file", "search"}
        /\ HasModelKey =>
               /\ \A i \in 1..Len(Completions) : Completions[i].text = greet_reply
               /\ (Finished /\ ~sinkFailed) =>
                      /\ events[Len(events)] = CompleteOk(greet_reply)
                      /\ Errors = <<>>

C5_Witness ==
    /\ pc = "done"
    /\ data.message = MsgHolaMixed
    /\ llmCalls = 0
    /\ events # <<>>
    /\ events[Len(events)] = CompleteOk(greet_reply)

---------------------------------------------------------------------------
(* C6 *)

\* the result chunks of the lookup loop, in order
ResultChunks ==
    SelectSeq(events, LAMBDA e :
        e.op = "stream_chunk" /\ e.text[1].k \in {"result_chunk", "not_found_chunk"})

\* what the loop must render for the k-th search
RenderedLink(k) ==
    IF searches[k].result.raised \/ ~Truthy(searches[k].result.val)
    THEN ""
    ELSE searches[k].result.val

\* C6: in the lookup loop (every sink call returning), the items are
\* searched one by one in list order, each once; a search that raises is
\* rendered as "No encontrado" for its item and the others as their link or
\* "No encontrado"; the turn never goes to the top-level handler; and it
\* ends with every item searched, one result line per item and
\* complete_response.
C6_SearchFailureIsolated ==
    (searches # <<>> /\ ~sinkFailed) =>
        LET n == Len(searches)
            r == Len(results_lines) - 1
        IN
        /\ n <= Len(normalized)
        /\ \A k \in 1..n : searches[k].ing = normalized[k]
        /\ pc \notin {Except, "raised"}
        /\ Errors = <<>>
        /\ r = IF pc = "result" THEN n - 1 ELSE n
        /\ Len(ResultChunks) = r
        /\ \A k \in 1..r :
               /\ searches[k].result.raised =>
                      /\ results_lines[k + 1] = <<Line("not_found", normalized[k], "", 0)>>
                      /\ ResultChunks[k].text = <<Line("not_found_chunk", normalized[k], "", 0)>>
               /\ results_lines[k + 1] = result_line(normalized[k], RenderedLink(k))
               /\ ResultChunks[k].text = result_msg(normalized[k], RenderedLink(k))
        /\ Finished =>
               /\ n = Len(normalized)
               /\ events[Len(events)].op = "complete_response"
               /\ events[Len(events)].ok

C6_Witness ==
    /\ pc = "done"
    /\ ~sinkFailed
    /\ Truthy(data.variables.SERPER_API_KEY)
    /\ Len(searches) = 3
    /\ searches[1].result.raised
    /\ searches[2].result.val = "L1"
    /\ results_lines[2] = <<Line("not_found", normalized[1], "", 0)>>
    /\ results_lines[3] = <<Line("result", normalized[2], "L1", 0)>>
    /\ events[Len(events)].op = "complete_response"

---------------------------------------------------------------------------
(* C7 *)

\* the result line the composed response must hold for a streamed result
LineFor(chunk) ==
    IF chunk.k = "result_chunk"
    THEN Line("result", chunk.ing, chunk.link, 0)
    ELSE Line("not_found", chunk.ing, "", 0)

\* a text is the composition of the item list and the per-item results
IsComposition(text, items, results) ==
    LET n == Len(items) IN
    /\ Len(results) = n
    /\ Len(text) = 2 * n + 3
    /\ text[1] = Line("items_header", <<>>, "", 0)
    /\ \A i \in 1..n : text[1 + i] = Line("item", items[i], "", 0)
    /\ text[n + 2] = Line("blank", <<>>, "", 0)
    /\ text[n + 3] = Line("results_header", <<>>, "", 0)
    /\ \A i \in 1..n :
           /\ results[i].text[1].ing = items[i]
           /\ text[n + 3 + i] = LineFor(results[i].text[1])

\* C7: the composed response, as stored and as delivered, is the items
\* header, the normalized items in their order, a blank line, the results
\* header and one result line per item in the same order, each the item's
\* link or "No encontrado" as streamed for it.
C7_ComposedResponse ==
    /\ pc = "complete" =>
           LET h == store[data.thread_id] IN
           /\ h # <<>>
           /\ h[Len(h)].role = "assistant"
           /\ IsComposition(h[Len(h)].content, normalized, ResultChunks)
    /\ (normalized # <<>> /\ Completions # <<>>) =>
           IsComposition(Completions[1].text, normalized, ResultChunks)

C7_Witness ==
    /\ pc = "done"
    /\ Len(normalized) = 3
    /\ Len(Completions) = 1
    /\ Completions[1].text[2] = Line("item", <<"a">>, "", 0)
    /\ Completions[1].text[7] = Line("result", <<"a">>, "L2", 0)
    /\ Completions[1].text[8] = Line("not_found", <<"b">>, "", 0)
    /\ Completions[1].text[9] = Line("result", <<"c">>, "L1", 0)

---------------------------------------------------------------------------
(* C8 *)

\* the elements of the parsed model output
ParsedItems == IF ingredients.val.t = "list" THEN ingredients.val.v ELSE <<>>

\* a plain string, or an object with a name member
HasAcceptedShape(e) ==
    e.t = "str" \/ (e.t = "dict" /\ \E i \in DOMAIN e.v : e.v[i].key = "name")

\* the trimmed names of the accepted elements, in the order of the output
AcceptedNames ==
    LET acc == SelectSeq(ParsedItems, HasAcceptedShape) IN
    [i \in 1..Len(acc) |-> ItemName(acc[i])]

IsBlank(name) == \A j \in DOMAIN name : IsSpace(name[j])

\* where a name, ignoring case, is first seen among the accepted names
FirstSeen(name) ==
    CHOOSE k \in DOMAIN AcceptedNames :
        /\ lower(AcceptedNames[k]) = lower(name)
        /\ \A j \in 1..(k - 1) : lower(AcceptedNames[j]) # lower(name)

\* C8: the normalized list has no blank entry and no two entries equal
\* ignoring case; its entries are names of accepted elements (a string, or
\* an object with a name), each as first spelled; every non-blank accepted
\* name is represented; and the entries keep first-seen order.
C8_NormalizedItemList ==
    pc = "normalize_output" =>
        /\ \A i \in DOMAIN normalized : ~IsBlank(normalized[i])
        /\ \A i, j \in DOMAIN normalized :
               i # j => lower(normalized[i]) # lower(normalized[j])
        /\ \A i \in DOMAIN normalized :
               /\ \E k \in DOMAIN AcceptedNames : lower(AcceptedNames[k]) = lower(normalized[i])
               /\ normalized[i] = AcceptedNames[FirstSeen(normalized[i])]
        /\ \A k \in DOMAIN AcceptedNames :
               ~IsBlank(AcceptedNames[k]) =>
                   \E i \in DOMAIN normalized : lower(normalized[i]) = lower(AcceptedNames[k])
        /\ \A i, j \in DOMAIN normalized :
               i < j => FirstSeen(normalized[i]) < FirstSeen(normalized[j])

C8_Witness ==
    /\ pc = "normalize_output"
    /\ ingredients.val =
           V_list(<<V_num, V_str(<<" ", "a", " ">>), V_str(<<"A">>)>>)
    /\ normalized = << <<"a">> >>

---------------------------------------------------------------------------
(* C9 *)

\* the result as process_message uses it (main.py:188-189)
AsList(val) == IF val.t = "list" THEN val ELSE V_list(<<>>)

IsJsonArray(text) == json_loads(text).ok /\ json_loads(text).val.t = "list"

\* C9: the result is the array the full text denotes when it is a JSON
\* array; otherwise the array its bracketed substring denotes when that
\* parses; and empty only when both attempts fail.
C9_TwoStage ==
    pc = "extract_output" =>
        LET match == re_search(raw_content)
            result == AsList(ingredients.val)
        IN
        /\ ~ingredients.raised
        /\ IsJsonArray(raw_content) => result = json_loads(raw_content).val
        /\ (~IsJsonArray(raw_content) /\ match # <<>> /\ IsJsonArray(match)) =>
               result = json_loads(match).val
        /\ (~IsJsonArray(raw_content) /\ ~(match # <<>> /\ IsJsonArray(match))) =>
               result = V_list(<<>>)

---------------------------------------------------------------------------
(* C10 *)

\* the text from its first "[" to its last "]" is no JSON (or there is no
\* such pair)
NoBracketedJson(text) ==
    \A i, j \in DOMAIN text :
        ( /\ i < j
          /\ text[i] = "["
          /\ text[j] = "]"
          /\ \A k \in 1..(i - 1) : text[k] # "["
          /\ \A k \in (j + 1)..Len(text) : text[k] # "]" )
        => ~json_loads(SubSeq(text, i, j)).ok

\* C10: _extract_json_array never raises, and on a text that is not JSON
\* and has no bracket pair, or whose bracketed substring does not parse, it
\* returns the empty list.
C10_NonJsonGivesEmpty ==
    pc = "extract_output" =>
        /\ ~ingredients.raised
        /\ (~json_loads(raw_content).ok /\ NoBracketedJson(raw_content)) =>
               ingredients.val = V_list(<<>>)

C10_Witness ==
    /\ pc = "extract_output"
    /\ raw_content = <<"[", "'a'", "]", "x", "]">>
    /\ ingredients = Returned(V_list(<<>>))

---------------------------------------------------------------------------
(* C11 *)

\* the language model has answered and the normalized item list is empty
EmptyExtraction == llmCalls = 1 /\ ~providerFailed /\ normalized = <<>>

\* C11: when the normalized item list is empty the turn stops after the
\* fixed "could not identify" message: no search call is made, the audit
\* file is not written, no assistant turn is appended (the thread ends with
\* the user's turn), the only chunk after the acknowledgment is that
\* message, every complete_response carries it, and when every sink call
\* returns the turn ends with complete_response and without send_error.
C11_EmptyExtractionStops ==
    EmptyExtraction =>
        LET h == store[data.thread_id] IN
        /\ searches = <<>>
        /\ file = <<>>
        /\ h # <<>>
        /\ h[Len(h)] = Turn("user", data.message)
        /\ \A i \in DOMAIN h : h[i].role # "assistant"
        /\ pc \in {"no_items_chunk", "no_items_complete", "done", Except, "raised"}
        /\ IsPrefix([i \in 1..Len(Chunks) |-> Chunks[i].text], <<ack_msg, no_items_msg>>)
        /\ \A i \in 1..Len(events) :
               events[i].op = "complete_response" =>
                   /\ events[i].text = no_items_msg
                   /\ SubSeq(events, 1, i - 1) = <<ChunkOk(ack_msg), ChunkOk(no_items_msg)>>
        /\ ~sinkFailed => (pc # Except /\ Errors = <<>>)
        /\ (Finished /\ ~sinkFailed) =>
               events = <<ChunkOk(ack_msg), ChunkOk(no_items_msg), CompleteOk(no_items_msg)>>

C11_Witness ==
    /\ pc = "done"
    /\ raw_content = <<"x">>
    /\ normalized = <<>>
    /\ store[data.thread_id] # <<>>
    /\ events = <<ChunkOk(ack_msg), ChunkOk(no_items_msg), CompleteOk(no_items_msg)>>

---------------------------------------------------------------------------
(* C13 *)

RECURSIVE LookupChunks(_)

\* the chunks of a lookup loop in which no item has a result
LookupChunks(items) ==
    IF items = <<>> THEN <<>>
    ELSE <<ChunkOk(progress_msg(Head(items))), ChunkOk(result_msg(Head(items), ""))>>
         \o LookupChunks(Tail(items))

\* what the caller receives in a turn that holds the search credential when
\* the provider has no result for any of the items
NoResultEvents(items) ==
    <<ChunkOk(ack_msg), ChunkOk(items_header)>>
    \o [i \in 1..Len(items) |-> ChunkOk(item_line(items[i]))]
    \o <<ChunkOk(count_msg(Len(items)))>>
    \o LookupChunks(items)
    \o <<CompleteOk(compose(items,
            <<results_header>> \o [i \in 1..Len(items) |-> result_line(items[i], "")]))>>

HasSearchKey == Truthy(data.variables.SERPER_API_KEY)

\* C13: what the caller receives in a turn that went through the lookup
\* flow without a search credential differs from what it receives for the
\* same items when the credential is present and the provider has no result
\* for any of them.
C13_MissingSearchKeyDistinct ==
    (pc = "done" /\ ~sinkFailed /\ searches # <<>> /\ ~HasSearchKey) =>
        events # NoResultEvents(normalized)

---------------------------------------------------------------------------
(* C14 *)

\* the message of send_error when it carries no detail of the exception
generic_error == <<Line("error", <<>>, "", 0)>>

\* C14: the message delivered through send_error is the same for every
\* failure: it carries no detail text of the exception.
C14_GenericErrorMessage ==
    \A i \in DOMAIN Errors : Errors[i].text = generic_error

---------------------------------------------------------------------------
(* C12 *)

InExternalCall(r) == tasks[r].at \in {"in_model_call", "in_file_write", "in_search"}

\* scheduled by the host and not yet over
IsRunningTurn(r) == tasks[r].at \notin {"none", "done"}

\* C12: while the turn of one request is inside an external call
\* (language-model call, file write, search request), every other turn in
\* progress can take a step.
C12_OtherTurnsNotBlocked ==
    pc = "serving" =>
        \A r, u \in Requests :
            (r # u /\ InExternalCall(r) /\ IsRunningTurn(u)) => ENABLED TurnStep(u)

---------------------------------------------------------------------------
(* C15 *)

\* the last n elements of a sequence, all of them if it is shorter
LastN(s, n) == IF Len(s) <= n THEN s ELSE SubSeq(s, Len(s) - n + 1, Len(s))

\* C15: after any sequence of appends a thread's history holds at most 10
\* (max_history) turns, and get_history returns the last 10 turns appended
\* to the thread (all of them if fewer) in the order they were appended.
C15_HistoryBounded ==
    pc = "store" =>
        \A th \in Threads :
            /\ Len(store[th]) <= 10
            /\ get_history(store, th) = LastN(appended[th], 10)

C15_Witness ==
    /\ pc = "store"
    /\ Len(appended["t1"]) = 12
    /\ Len(get_history(store, "t1")) = 10
    /\ get_history(store, "t1")[1] = appended["t1"][3]
    /\ get_history(store, "t1")[10] = Turn("assistant", <<12>>)

---------------------------------------------------------------------------
(* Vocabulary of the claims on the dispatcher. *)

\* the calls execute_function_call has been left for
Executed == 1..Len(call_log)

\* the calls execute_function_call has been entered for
Started == {k \in 1..Len(function_calls) : k <= call_idx}

\* the sink calls issued by the k-th function call
CallEvents(k) == {i \in DOMAIN events : event_call[i] = k}

\* what the k-th function call did outside the sink
CallEffects(k) == SelectSeq(effects, LAMBDA e : e.call = k)

\* some sink call of the k-th function call raised
SinkFailedIn(k) == \E i \in CallEvents(k) : ~events[i].ok

Registry == {"google_search", "build_menu_gallery"}

IsErrorText(text) ==
    text # <<>> /\ text[1].k \in {"execution_error", "processing_error"}

RECURSIVE Concatenation(_)

Concatenation(texts) ==
    IF texts = <<>> THEN <<>> ELSE Head(texts) \o Concatenation(Tail(texts))

---------------------------------------------------------------------------
(* C16 *)

\* the arguments of the k-th call are no encoded object
Undecodable(k) ==
    \/ function_calls[k].arguments = NoArguments
    \/ LET loaded == json_loads(function_calls[k].arguments) IN
       ~loaded.ok \/ loaded.val.t # "dict"

\* something failed while the k-th call was executed: its name or its
\* arguments could not be read, a sink call outside the attempts of the
\* gallery raised, or the menu could not be parsed or written
FailedIn(k) ==
    \/ function_calls[k].name = None
    \/ function_calls[k].name \in Registry /\ Undecodable(k)
    \/ \E i \in CallEvents(k) : ~events[i].ok /\ events[i].text[1].k # "image"
    \/ \E i \in DOMAIN effects :
           /\ effects[i].call = k
           /\ effects[i].op \in {"parse", "write"}
           /\ effects[i].outcome.raised

\* C16: the calls are executed one at a time in the order of the list: the
\* call index of the sink calls never decreases, so the sink calls of a
\* call all come before those of the next one; one result is added per
\* call and the aggregate is the concatenation of these in the order of the
\* list; a call in which something failed adds an error text; and at the
\* end every call of the list has been executed.
C16_CallsInOrder ==
    /\ \A i \in DOMAIN events : i > 1 => event_call[i - 1] <= event_call[i]
    /\ \A i \in DOMAIN events : event_call[i] \in 1..Len(function_calls)
    /\ Len(call_log) = (IF call_idx = 0 THEN 0 ELSE call_idx - 1)
    /\ \A i \in DOMAIN events : event_call[i] <= Len(call_log) + 1
    /\ combined_result =
           Concatenation([k \in 1..Len(call_log) |-> call_log[k].result])
    /\ \A k \in Executed : FailedIn(k) => IsErrorText(call_log[k].result)
    /\ pc = "done" => Len(call_log) = Len(function_calls)

C16_Witness ==
    /\ pc = "done"
    /\ Len(function_calls) = 2
    /\ function_calls[1].name = None
    /\ call_log[1].raised
    /\ function_calls[2] = FunctionCall("google_search", ArgsQuery)
    /\ call_log[2].result = search_results(<<"a">>)
    /\ combined_result = processing_error("KeyError: 'function'") \o search_results(<<"a">>)
    /\ Len(events) = 3
    /\ \A i \in DOMAIN events : event_call[i] = 2

---------------------------------------------------------------------------
(* C17 *)

\* C17: a call whose name is not in the registry never makes
\* execute_function_call raise, never goes on to the arguments nor to a
\* search, streams nothing but the "processing" chunk, and is answered by
\* an error text that names the function: the "unknown function" text, or
\* the "error executing" text when the "processing" chunk raised.
C17_UnknownFunction ==
    \A k \in Started :
        (function_calls[k].name \notin Registry \cup {None}) =>
            LET name == function_calls[k].name IN
            /\ CallEffects(k) = <<>>
            /\ \A i \in CallEvents(k) : events[i].text = processing_msg(name)
            /\ Cardinality(CallEvents(k)) <= 1
            /\ (call_idx = k) =>
                   pc \in {"efc_entry", "efc_processing", "efc_dispatch", "efc_except"}
            /\ (k \in Executed) =>
                   /\ ~call_log[k].raised
                   /\ call_log[k].result[1].fn = name
                   /\ call_log[k].result =
                          IF SinkFailedIn(k)
                          THEN execution_error(name, "sink error")
                          ELSE unknown_function_error(name)

C17_Witness ==
    /\ pc = "done"
    /\ ~sinkFailed
    /\ Len(function_calls) = 2
    /\ function_calls[1].name = "get_weather"
    /\ call_log[1].result = unknown_function_error("get_weather")
    /\ effects # <<>>

---------------------------------------------------------------------------
(* C18 *)

\* the arguments of the k-th call decode to an object in which menu_text is
\* missing or the empty string
MenuTextMissing(k) ==
    /\ function_calls[k].arguments # NoArguments
    /\ LET loaded == json_loads(function_calls[k].arguments) IN
       /\ loaded.ok
       /\ loaded.val.t = "dict"
       /\ \A i \in DOMAIN loaded.val.v :
              loaded.val.v[i].key = "menu_text" => loaded.val.v[i].val = V_str(<<>>)

\* C18: a google_search or build_menu_gallery call whose arguments are no
\* encoded object never makes execute_function_call raise, never reaches
\* its handler (no search, no parse, no file write, no chunk but the
\* "processing" one) and is answered by the "error executing" text that
\* names the function; a build_menu_gallery call whose menu_text is missing
\* or empty is answered by the "menu_text is required" text (the "error
\* executing" text when the "processing" chunk raised) and parses, writes
\* and searches nothing.
C18_MalformedArguments ==
    \A k \in Started :
        LET name == function_calls[k].name IN
        /\ (name \in Registry /\ Undecodable(k)) =>
               /\ CallEffects(k) = <<>>
               /\ \A i \in CallEvents(k) : events[i].text = processing_msg(name)
               /\ (call_idx = k) =>
                      pc \in {"efc_entry", "efc_processing", "efc_dispatch", "efc_except"}
               /\ (k \in Executed) =>
                      /\ ~call_log[k].raised
                      /\ Len(call_log[k].result) = 1
                      /\ call_log[k].result[1].k = "execution_error"
                      /\ call_log[k].result[1].fn = name
        /\ (name = "build_menu_gallery" /\ MenuTextMissing(k)) =>
               /\ CallEffects(k) = <<>>
               /\ \A i \in CallEvents(k) : events[i].text = processing_msg(name)
               /\ (k \in Executed) =>
                      /\ ~call_log[k].raised
                      /\ call_log[k].result =
                             IF SinkFailedIn(k)
                             THEN execution_error(name, "sink error")
                             ELSE menu_text_required

C18_Witness ==
    /\ pc = "done"
    /\ ~sinkFailed
    /\ function_calls = << FunctionCall("google_search", ArgsTruncated),
                           FunctionCall("build_menu_gallery", ArgsEmpty) >>
    /\ call_log[1].result[1].k = "execution_error"
    /\ call_log[1].result[1].fn = "google_search"
    /\ call_log[2].result = menu_text_required
    /\ effects = <<>>
    /\ menu_file = <<>>

---------------------------------------------------------------------------
(* C19 *)

\* the items the k-th call parsed out of its menu text
GalleryItems(k) ==
    LET parses == SelectSeq(effects, LAMBDA e : e.call = k /\ e.op = "parse") IN
    IF parses = <<>> \/ parses[1].outcome.raised THEN <<>> ELSE parses[1].outcome.val

\* the image searches of the k-th call for an item, in order
ImageSearches(k, item) ==
    SelectSeq(effects,
              LAMBDA e : e.call = k /\ e.op = "image_search" /\ e.item = item)

\* an image search that resolved an image
Resolved(e) == ~e.outcome.raised /\ e.outcome.val # None /\ e.outcome.val # ""

\* the k-th call is over, it had items, and no search resolved an image
NothingResolved(k) ==
    /\ k \in Executed
    /\ GalleryItems(k) # <<>>
    /\ \A i \in DOMAIN effects :
           (effects[i].call = k /\ effects[i].op = "image_search") => ~Resolved(effects[i])

\* the k-th gallery ran to its end: the file was written and no chunk raised
RanThrough(k) ==
    /\ k \in Executed
    /\ ~SinkFailedIn(k)
    /\ \A i \in DOMAIN effects :
           (effects[i].call = k /\ effects[i].op = "write") => ~effects[i].outcome.raised

---------------------------------------------------------------------------
(* C20 *)

\* results_per_item of the k-th call brought into 1..3; 1 when it is
\* missing, null or 0
ClampedRequest(k) ==
    LET members == json_loads(function_calls[k].arguments).val.v
        at == {i \in DOMAIN members : members[i].key = "results_per_item"}
    IN
    IF at = {} THEN 1
    ELSE LET val == members[CHOOSE i \in at : \A j \in at : j <= i].val IN
         IF val.t # "num" \/ val.v = <<>> THEN 1
         ELSE IF val.v[1] < 1 THEN 1
         ELSE IF val.v[1] > 3 THEN 3
         ELSE val.v[1]

\* the image lines of an item in the text the k-th call returned
ImageLines(k, item) ==
    SelectSeq(call_log[k].result, LAMBDA l : l.k = "item_image" /\ l.item = item)

\* C20: in a gallery, an item is never searched more often than
\* results_per_item clamped to 1..3 and a search that misses or fails is
\* the last one of its item; in a gallery that ran to its end every item
\* was searched at least once, the "No image found" notice was streamed for
\* exactly the items without a resolved image, and the summary holds, apart
\* from its header, one image line per resolved image, item by item and
\* with the URL resolved.
C20_GalleryCounts ==
    \A k \in Started :
        LET items == GalleryItems(k) IN
        items # <<>> =>
            /\ LET most == ClampedRequest(k) IN
               /\ most \in 1..3
               /\ \A j \in DOMAIN items :
                      LET found == ImageSearches(k, items[j]) IN
                      /\ Len(found) <= most
                      /\ \A i \in 1..(Len(found) - 1) : Resolved(found[i])
            /\ RanThrough(k) =>
                   /\ \A j \in DOMAIN items :
                          LET found == ImageSearches(k, items[j])
                              hits == SelectSeq(found, Resolved)
                              notices == {i \in CallEvents(k) :
                                            events[i].text = no_image_notice(items[j])}
                          IN
                          /\ Len(found) >= 1
                          /\ Cardinality(notices) = (IF hits = <<>> THEN 1 ELSE 0)
                          /\ ImageLines(k, items[j]) =
                                 [i \in 1..Len(hits) |->
                                     image_line(j, items[j], hits[i].outcome.val)[1]]
                   /\ Len(call_log[k].result) =
                          1 + Cardinality({i \in DOMAIN effects :
                                  /\ effects[i].call = k
                                  /\ effects[i].op = "image_search"
                                  /\ Resolved(effects[i])})
                   /\ call_log[k].result[1] = gallery_header(Len(items))[1]

C20_Witness ==
    /\ pc = "done"
    /\ ~sinkFailed
    /\ function_calls = << FunctionCall("build_menu_gallery", ArgsOneItemFive),
                           FunctionCall("build_menu_gallery", ArgsNoItems) >>
    /\ ClampedRequest(1) = 3
    /\ Len(effects) = 6
    /\ Resolved(effects[3]) /\ Resolved(effects[4]) /\ ~Resolved(effects[5])
    /\ Len(call_log[1].result) = 3
    /\ \A i \in DOMAIN events : events[i].text[1].k # "no_image"

---------------------------------------------------------------------------
(* C21 *)

\* the first call on the sink is the acknowledgment chunk
AckIsFirst ==
    /\ events # <<>>
    /\ events[1].op = "stream_chunk"
    /\ events[1].text = ack_msg

\* a blocking external call of the turn is being made or has been made
ExternalCallReached ==
    \/ pc \in {"model_call", "write_file", "search"}
    \/ llmCalls > 0
    \/ searches # <<>>
    \/ file # <<>>

\* C21: in a turn that carries the language-model credential, whatever is
\* first on the sink is the acknowledgment chunk, it is there before the
\* language model is called, a search is made or the file is written, and
\* no turn is over without it.
C21_AckBeforeExternalCalls ==
    HasModelKey =>
        /\ events # <<>> => AckIsFirst
        /\ ExternalCallReached => AckIsFirst
        /\ Finished => AckIsFirst

---------------------------------------------------------------------------
(* C22 *)

\* the turn has reached the composition (main.py:236)
OnFullPath == normalized # <<>> /\ (pc = "complete" \/ Completions # <<>>)

\* the newest turn of the thread of the message
NewestTurn == store[data.thread_id][Len(store[data.thread_id])]

\* C22: when complete_response is about to be called with the composed
\* response, nothing has been delivered yet and the composed response is
\* already the newest turn of the thread, as an assistant turn; once it has
\* been called, it has been called once, with the very text of that turn,
\* and the turn is still the newest one of the thread.
C22_StoredBeforeDelivered ==
    /\ pc = "complete" =>
           /\ Notifications = <<>>
           /\ store[data.thread_id] # <<>>
           /\ NewestTurn.role = "assistant"
           /\ NewestTurn.content = final_response
    /\ OnFullPath =>
           /\ store[data.thread_id] # <<>>
           /\ NewestTurn.role = "assistant"
           /\ Len(Completions) <= 1
           /\ \A i \in DOMAIN Completions :
                  Completions[i].text = NewestTurn.content

C22_Witness ==
    /\ pc = "done"
    /\ ~sinkFailed
    /\ Len(normalized) = 2
    /\ Len(store[data.thread_id]) = 10
    /\ Len(prior_store[data.thread_id]) = 10
    /\ Len(Completions) = 1
    /\ NewestTurn = Turn("assistant", Completions[1].text)
    /\ store[data.thread_id][9] = Turn("user", data.message)

---------------------------------------------------------------------------
(* C23 *)

RECURSIVE LookupEvents(_, _)

\* the chunks of the lookup loop for the items from the k-th on: the
\* progress chunk of an item, then its result chunk, which shows what the
\* search of the item returned
LookupEvents(items, k) ==
    IF k > Len(items) THEN <<>>
    ELSE <<ChunkOk(progress_msg(items[k])),
           ChunkOk(result_msg(items[k], RenderedLink(k)))>>
         \o LookupEvents(items, k + 1)

\* the calls on the sink that precede the delivery on the full path
FullPathChunks(items) ==
    <<ChunkOk(ack_msg), ChunkOk(items_header)>>
    \o [i \in 1..Len(items) |-> ChunkOk(item_line(items[i]))]
    \o <<ChunkOk(count_msg(Len(items)))>>
    \o LookupEvents(items, 1)

\* C23: a turn that went through the full path with every sink call
\* returning has called the language model once and has made one search
\* per item, in list order, and its sink calls are exactly: the
\* acknowledgment, the items header, one chunk per item in list order, the
\* count, then per item in list order its progress chunk followed by its
\* result chunk, then complete_response.  The search of an item is made
\* after its progress chunk and before its result chunk (with every earlier
\* sink call returning, it is the only one so far for the item and the
\* items before it have one each).  In no turn is a stream_chunk issued
\* after complete_response or send_error.
C23_FullPathSequence ==
    /\ (OnFullPath /\ pc = "done" /\ ~sinkFailed) =>
           /\ llmCalls = 1
           /\ Len(searches) = Len(normalized)
           /\ \A i \in DOMAIN searches : searches[i].ing = normalized[i]
           /\ Len(events) = 3 * Len(normalized) + 4
           /\ SubSeq(events, 1, Len(events) - 1) = FullPathChunks(normalized)
           /\ events[Len(events)].op = "complete_response"
           /\ events[Len(events)].ok
    /\ pc = "search" =>
           /\ ~sinkFailed => Len(searches) = idx - 1
           /\ events[Len(events)] = ChunkOk(progress_msg(normalized[idx]))
    /\ (pc = "result" /\ ~sinkFailed) =>
           /\ Len(searches) = idx
           /\ searches[idx].ing = normalized[idx]
           /\ events[Len(events)] = ChunkOk(progress_msg(normalized[idx]))
    /\ \A i \in DOMAIN events :
           events[i].op \in Terminals =>
               \A j \in DOMAIN events : j > i => events[j].op # "stream_chunk"

C23_Witness ==
    /\ pc = "done"
    /\ ~sinkFailed
    /\ Len(normalized) = 3
    /\ Len(events) = 13
    /\ events[7] = ChunkOk(progress_msg(normalized[1]))
    /\ events[8] = ChunkOk(result_msg(normalized[1], "L1"))
    /\ events[10].text[1].k = "not_found_chunk"
    /\ searches[2].result.raised
    /\ events[13].op = "complete_response"

---------------------------------------------------------------------------
(* C24 *)

\* the history of the thread of the message after the user turn has been
\* appended to what the turn found
WithUserTurn ==
    LastN(Append(prior_store[data.thread_id], Turn("user", data.message)), 10)

\* the same after the turn of the assistant has been appended as well
WithBothTurns(text) ==
    LastN(Append(Append(prior_store[data.thread_id], Turn("user", data.message)),
                 Turn("assistant", text)), 10)

OtherThreadsUntouched ==
    \A th \in Threads \ {data.thread_id} : store[th] = prior_store[th]

\* the turn went past the credential check and the append of the user turn
PastStepTwo == HasModelKey /\ data.message # NoneMsg

\* the exits of a turn
GreetingExit == PastStepTwo /\ is_greeting(data.message)
EmptyExtractionExit == PastStepTwo /\ EmptyExtraction
FailureExit == PastStepTwo /\ Errors # <<>>

\* the turn has appended no turn of the assistant
NoAssistantTurn ==
    \/ store[data.thread_id] = prior_store[data.thread_id]
    \/ store[data.thread_id] = WithUserTurn

---------------------------------------------------------------------------
(* C25 *)

\* C25 as stated: execute_function_call never raises, whatever the
\* function_call, one without the function or name field included: every
\* call that has been executed returned its text, and the handler of
\* process_function_calls is never entered.
C25_ExecuteNeverRaises ==
    /\ pc # "pfc_except"
    /\ \A k \in Executed : ~call_log[k].raised

====
